---- MODULE Spec2Model ----
(***************************************************************************)
(* Model of the audio utilities of the voice-cloning front end             *)
(* (utils/audio: decodeAudioData, bufferToWave, calculateZCR,              *)
(* analyzeAudioQuality).                                                   *)
(*                                                                         *)
(* Numbers.  A Float32 sample is the fixed-point integer n standing for    *)
(* n / Scale, Scale a power of two, so every modelled sample is an exact   *)
(* Float32 value.  Every other JavaScript number is an exact non-negative  *)
(* rational [n, d].  The square roots of the code are modelled exactly:    *)
(* a window RMS by ExactSqrt (defined only on perfect squares; the buffers *)
(* drawn below have one magnitude per analysis window), a standard         *)
(* deviation by its square, compared against the squared threshold.        *)
(***************************************************************************)
EXTENDS Integers, Sequences, FiniteSets, TLC

(***************************************************************************)
(* Bounds of the model                                                     *)
(***************************************************************************)
\* fixed-point unit of a Float32 sample: the integer n is the sample n/Scale
Scale == 128
\* windows beyond the 3 second minimum in the longer analysed buffers
MaxExtraWindows == 3
\* length, in windows, of the long leading run of a buffer
LongLead == 45
\* frames beyond the 44 of the header cursor in the longer encoded buffers
MaxExtraFrames == 3

(***************************************************************************)
(* Exact rational arithmetic on non-negative numbers                       *)
(***************************************************************************)
Rat(n, d) == [n |-> n, d |-> d]

RECURSIVE FracLess(_, _, _, _)
\* n1/d1 < n2/d2 for n1, n2 >= 0 and d1, d2 > 0, by continued fractions
\* (no product is formed, so no intermediate value overflows)
FracLess(n1, d1, n2, d2) ==
  LET q1 == n1 \div d1
      q2 == n2 \div d2
      r1 == n1 % d1
      r2 == n2 % d2
  IN  IF q1 # q2 THEN q1 < q2
      ELSE IF r2 = 0 THEN FALSE
      ELSE IF r1 = 0 THEN TRUE
      ELSE FracLess(d2, r2, d1, r1)

\* a < b on JavaScript numbers
RatLess(a, b) == FracLess(a.n, a.d, b.n, b.d)

\* Math.max(a, b)
RatMax(a, b) == IF RatLess(a, b) THEN b ELSE a

\* Math.abs on a fixed-point sample
Abs(x) == IF x < 0 THEN -x ELSE x

RECURSIVE FloorSqrt(_, _, _)
\* the largest r in lo..hi with r * r <= x, given lo * lo <= x
FloorSqrt(x, lo, hi) ==
  IF lo = hi THEN lo
  ELSE LET mid == (lo + hi + 1) \div 2
       IN  IF mid * mid <= x THEN FloorSqrt(x, mid, hi)
           ELSE FloorSqrt(x, lo, mid - 1)

\* Math.sqrt on a perfect square below 2^30 (no value on anything else)
ExactSqrt(x) == CHOOSE r \in {FloorSqrt(x, 0, 32767)} : r * r = x

RECURSIVE SumRange(_, _, _)
\* s[lo] + ... + s[hi], by halves to keep the evaluation shallow
SumRange(s, lo, hi) ==
  IF lo > hi THEN 0
  ELSE IF lo = hi THEN s[lo]
  ELSE LET mid == (lo + hi) \div 2
       IN  SumRange(s, lo, mid) + SumRange(s, mid + 1, hi)

\* s[1] + ... + s[n]
SumTo(s, n) == SumRange(s, 1, n)

(***************************************************************************)
(* AudioBuffer.  A buffer is described by its sample rate, channel count,  *)
(* frame count and a pattern for its samples: blocks of                    *)
(* floor(sampleRate * 0.05) frames, the first leadN blocks of type lead,   *)
(* the rest cycling through motif.  A block type is an amplitude and       *)
(* whether the sign alternates from one frame to the next.  Odd channels   *)
(* hold the negated pattern.                                               *)
(***************************************************************************)
BlockSize(buffer) ==
  LET w == (buffer.sampleRate * 5) \div 100 IN IF w = 0 THEN 1 ELSE w

BlockType(buffer, b) ==
  IF b < buffer.leadN THEN buffer.lead
  ELSE buffer.motif[((b - buffer.leadN) % Len(buffer.motif)) + 1]

\* buffer.getChannelData(channel)[k], frames counted from 0
SampleAt(buffer, channel, k) ==
  LET t == BlockType(buffer, k \div BlockSize(buffer))
      j == k % BlockSize(buffer)
      x == IF t.alt /\ j % 2 = 1 THEN -t.amp ELSE t.amp
  IN  IF channel % 2 = 1 THEN -x ELSE x

\* mutant of DurationLess: the limit taken one second too low
DurationLess_OneSecondLow(buffer, s) ==
  buffer.length < (s - 1) * buffer.sampleRate

\* buffer.duration < s, buffer.duration being length / sampleRate
DurationLess(buffer, s) == buffer.length < s * buffer.sampleRate
DurationGreater(buffer, s) == buffer.length > s * buffer.sampleRate

(***************************************************************************)
(* bufferToWave.  The ArrayBuffer is the sequence of its bytes, the byte   *)
(* at offset b being view[b + 1], zero-filled on creation; the DataView    *)
(* writes are little-endian.  One cursor, pos, serves the header writes    *)
(* and then, without being reset, the frame loop.                          *)
(***************************************************************************)
\* an array once written: the same sequence, evaluated once
Filled(s) == s \o <<>>

NewArrayBuffer(length) == Filled([b \in 1..length |-> 0])

RECURSIVE Pow256(_)
Pow256(k) == IF k = 0 THEN 1 ELSE 256 * Pow256(k - 1)

\* the size low-order bytes of the unsigned value u written at byte offset at
SetBytes(view, at, size, u) ==
  Filled([i \in 1..Len(view) |->
     IF i - 1 >= at /\ i - 1 < at + size
     THEN (u \div Pow256(i - 1 - at)) % 256 ELSE view[i]])

\* view.setUint16(at, data, true), view.setUint32(at, data, true)
ViewSetUint16(view, at, data) == SetBytes(view, at, 2, data % 65536)
ViewSetUint32(view, at, data) == SetBytes(view, at, 4, data)

\* view.setInt16(at, sample, true): the value modulo 2^16, two's complement
ViewSetInt16(view, at, sample) == SetBytes(view, at, 2, sample % 65536)

\* x | 0 for a quotient n / d with d > 0: truncation toward zero
TruncDiv(n, d) == IF n >= 0 THEN n \div d ELSE -((-n) \div d)

\* Math.max(-1, Math.min(1, x)) on a fixed-point sample
Clamp(x) == IF x > Scale THEN Scale ELSE IF x < -Scale THEN -Scale ELSE x

\* (0.5 + sample < 0 ? sample * 32768 : sample * 32767) | 0; the condition
\* parses as (0.5 + sample) < 0
ScaleToInt16(sample) ==
  IF Scale + 2 * sample < 0
  THEN TruncDiv(sample * 32768, Scale)
  ELSE TruncDiv(sample * 32767, Scale)

\* mutant of WaveHeader: the block-align and bits-per-sample fields written
\* as 32-bit values, which moves every later field
WaveHeader_WideFields(abuffer, length) ==
  LET numOfChan == abuffer.numberOfChannels
  IN  << <<4, 1179011410>>, <<4, length - 8>>, <<4, 1163280727>>,
         <<4, 544501094>>, <<4, 16>>, <<2, 1>>, <<2, numOfChan>>,
         <<4, abuffer.sampleRate>>, <<4, abuffer.sampleRate * 2 * numOfChan>>,
         <<4, numOfChan * 2>>, <<4, 16>>,
         <<4, 1635017060>>, <<4, length - 44 - 4>> >>

\* the header fields in the order written: <<size in bytes, value>>
WaveHeader(abuffer, length) ==
  LET numOfChan == abuffer.numberOfChannels
  IN  << <<4, 1179011410>>,                          \* 0x46464952 "RIFF"
         <<4, length - 8>>,
         <<4, 1163280727>>,                          \* 0x45564157 "WAVE"
         <<4, 544501094>>,                           \* 0x20746d66 "fmt "
         <<4, 16>>,
         <<2, 1>>,
         <<2, numOfChan>>,
         <<4, abuffer.sampleRate>>,
         <<4, abuffer.sampleRate * 2 * numOfChan>>,
         <<2, numOfChan * 2>>,
         <<2, 16>>,
         <<4, 1635017060>>,                          \* 0x61746164 "data"
         <<4, length - 40 - 4>> >>                   \* length - pos - 4 at pos = 40

RECURSIVE WriteHeader(_, _, _, _)
\* setUint16 / setUint32 for fields[i..]: [view, pos] once all are written
WriteHeader(view, pos, fields, i) ==
  IF i > Len(fields) THEN [view |-> view, pos |-> pos]
  ELSE LET size == fields[i][1]
           data == fields[i][2]
       IN  WriteHeader(IF size = 2 THEN ViewSetUint16(view, pos, data)
                       ELSE ViewSetUint32(view, pos, data),
                       pos + size, fields, i + 1)

\* the 16-bit value of channels[i][pos]; past the end of the channel the
\* element is undefined, which clamps and scales to NaN, and NaN | 0 is 0
SampleToInt16(abuffer, i, pos) ==
  IF pos < abuffer.length THEN ScaleToInt16(Clamp(SampleAt(abuffer, i, pos)))
  ELSE 0

RECURSIVE WriteChannels(_, _, _, _, _)
\* for (i = 0; i < numOfChan; i++): the words of frame pos, from channel i on
WriteChannels(view, abuffer, pos, offset, i) ==
  IF i >= abuffer.numberOfChannels THEN view
  ELSE WriteChannels(
         ViewSetInt16(view, 44 + offset, SampleToInt16(abuffer, i, pos)),
         abuffer, pos, offset + 2, i + 1)

RECURSIVE WriteFrames(_, _, _, _, _)
\* while (pos < len) { ...; pos++ }
WriteFrames(view, abuffer, len, pos, offset) ==
  IF pos < len
  THEN WriteFrames(WriteChannels(view, abuffer, pos, offset, 0), abuffer, len,
                   pos + 1, offset + 2 * abuffer.numberOfChannels)
  ELSE view

\* mutant of bufferToWave: the ArrayBuffer sized by the buffer's own frame
\* count instead of len
bufferToWave_WholeBufferLength(abuffer, len) ==
  LET length == abuffer.length * abuffer.numberOfChannels * 2 + 44
      h == WriteHeader(NewArrayBuffer(length), 0, WaveHeader(abuffer, length), 1)
  IN  WriteFrames(h.view, abuffer, len, h.pos, 0)

\* the bytes of the Blob returned
bufferToWave(abuffer, len) ==
  LET length == len * abuffer.numberOfChannels * 2 + 44
      h == WriteHeader(NewArrayBuffer(length), 0, WaveHeader(abuffer, length), 1)
  IN  WriteFrames(h.view, abuffer, len, h.pos, 0)

(***************************************************************************)
(* calculateZCR: the number of adjacent pairs of the window whose sign     *)
(* classes differ (0 counts as non-negative), over the window length.      *)
(* A window is a function on 0..n-1.                                       *)
(***************************************************************************)
WindowLen(w) == Cardinality(DOMAIN w)

\* mutant of calculateZCR: a sample equal to 0 classed with the negative ones
calculateZCR_ZeroNegative(w) ==
  LET n == WindowLen(w)
      zcr == Cardinality({i \in 1..(n - 1) :
                 \/ w[i] > 0 /\ w[i - 1] <= 0
                 \/ w[i] <= 0 /\ w[i - 1] > 0})
  IN  Rat(zcr, n)

calculateZCR(w) ==
  LET n == WindowLen(w)
      zcr == Cardinality({i \in 1..(n - 1) :
                 \/ w[i] >= 0 /\ w[i - 1] < 0
                 \/ w[i] < 0 /\ w[i - 1] >= 0})
  IN  Rat(zcr, n)

(***************************************************************************)
(* analyzeAudioQuality, window loop: per-window RMS and ZCR of channel 0,  *)
(* the running peak and the RMS total.  Windows are counted from 1 in the  *)
(* sequences (windowRMSs[i + 1] is the code's windowRMSs[i]).              *)
(***************************************************************************)
windowSizeSamples(buffer) == (buffer.sampleRate * 5) \div 100

totalWindows(buffer) == buffer.length \div windowSizeSamples(buffer)

\* mutant of windowData: the slice taken one window further on
windowData_NextWindow(buffer, i) ==
  [j \in 0..(windowSizeSamples(buffer) - 1) |->
      SampleAt(buffer, 0, (i + 1) * windowSizeSamples(buffer) + j)]

\* mutant of windowData: the channels mixed down to one before slicing
windowData_MixedDown(buffer, i) ==
  [j \in 0..(windowSizeSamples(buffer) - 1) |->
      LET k == i * windowSizeSamples(buffer) + j
      IN  IF buffer.numberOfChannels = 1 THEN SampleAt(buffer, 0, k)
          ELSE TruncDiv(SampleAt(buffer, 0, k) + SampleAt(buffer, 1, k), 2)]

\* data.slice(i * windowSizeSamples, (i + 1) * windowSizeSamples), i from 0
windowData(buffer, i) ==
  [j \in 0..(windowSizeSamples(buffer) - 1) |->
      SampleAt(buffer, 0, i * windowSizeSamples(buffer) + j)]

\* sumSquares of a window, in units of 1 / Scale^2
sumSquares(w) ==
  SumTo([j \in 1..WindowLen(w) |-> w[j - 1] * w[j - 1]], WindowLen(w))

\* a / b for b dividing a
ExactDiv(a, b) == CHOOSE q \in {a \div b} : q * b = a

\* Math.sqrt(sumSquares / windowSizeSamples), in units of 1 / Scale
windowRMS(buffer, i) ==
  ExactSqrt(ExactDiv(sumSquares(windowData(buffer, i)), windowSizeSamples(buffer)))

\* the largest |sample| of a window, in units of 1 / Scale
windowPeak(w) ==
  CHOOSE p \in {Abs(w[j]) : j \in DOMAIN w} : \A j \in DOMAIN w : Abs(w[j]) <= p

\* the running maximum of s[1..n], starting from 0
MaxTo(s, n) ==
  CHOOSE m \in {0} \cup {s[i] : i \in 1..n} : \A i \in 1..n : s[i] <= m

\* the state of the locals after the window loop
ExtractWindows(buffer) ==
  LET W    == totalWindows(buffer)
      rmss == Filled([i \in 1..W |-> windowRMS(buffer, i - 1)])
      zcrs == Filled([i \in 1..W |-> calculateZCR(windowData(buffer, i - 1))])
      pks  == Filled([i \in 1..W |-> windowPeak(windowData(buffer, i - 1))])
  IN  [totalWindows |-> W,
       windowRMSs   |-> rmss,
       windowZCRs   |-> zcrs,
       globalPeak   |-> Rat(MaxTo(pks, W), Scale),
       totalRMS     |-> SumTo(rmss, W),
       avgRMS       |-> Rat(SumTo(rmss, W), Scale * W)]

(***************************************************************************)
(* analyzeAudioQuality, dynamics and rhythm analysis.  e is the record of  *)
(* ExtractWindows.  The loop runs over the interior windows only: the      *)
(* code's i = 1 .. windowRMSs.length - 2, here 2 .. W - 1.                 *)
(***************************************************************************)
\* a * (num / den) for a decimal literal num / den
RatScale(a, num, den) == Rat(a.n * num, a.d * den)

dynamicThreshold(e) == RatMax(RatScale(e.avgRMS, 4, 10), Rat(2, 100))

curr(e, i) == Rat(e.windowRMSs[i], Scale)

LoopRange(e) == 2..(e.totalWindows - 1)

ActiveWindows(e) ==
  LET thr == dynamicThreshold(e)
  IN  {i \in LoopRange(e) : RatLess(thr, curr(e, i))}

quietWindows(e) ==
  LET thr == dynamicThreshold(e)
  IN  Cardinality({i \in LoopRange(e) : RatLess(curr(e, i), thr)})

peakCount(e) ==
  LET floor == RatScale(e.avgRMS, 8, 10)
  IN  Cardinality({i \in ActiveWindows(e) :
        /\ e.windowRMSs[i] > e.windowRMSs[i - 1]
        /\ e.windowRMSs[i] > e.windowRMSs[i + 1]
        /\ RatLess(floor, curr(e, i))})

\* the square of zcrStdDev: zcrVarianceSum / activeZCRs.length, with
\* z = c / ws and avgZCR = C / (A * ws)
zcrStdDevSq(e, ws) ==
  LET act == ActiveWindows(e)
      A   == Cardinality(act)
      W   == e.totalWindows
      C   == SumTo([i \in 1..W |-> IF i \in act THEN e.windowZCRs[i].n ELSE 0], W)
      dev == [i \in 1..W |->
                IF i \in act
                THEN (A * e.windowZCRs[i].n - C) * (A * e.windowZCRs[i].n - C)
                ELSE 0]
  IN  IF A > 0 THEN Rat(SumTo(dev, W), A * A * A * ws * ws) ELSE Rat(0, 1)

\* the square of variationCoefficient = stdDevRMS / avgRMS:
\* sumSquaredDiff = S / (Scale * W)^2 with S the sum of (W * rms - T)^2,
\* so (sumSquaredDiff / W) / avgRMS^2 = S / (W * T^2); W divides S
variationCoefficientSq(e) ==
  LET W == e.totalWindows
      T == e.totalRMS
      S == SumTo([i \in 1..W |->
                    (W * e.windowRMSs[i] - T) * (W * e.windowRMSs[i] - T)], W)
  IN  Rat(S \div W, T * T)

\* the locals the scoring and the heuristic checks read
Dynamics(e, ws) ==
  LET A == Cardinality(ActiveWindows(e))
  IN  [totalWindows          |-> e.totalWindows,
       globalPeak            |-> e.globalPeak,
       avgRMS                |-> e.avgRMS,
       activeWindowsCount    |-> A,
       quietRatio            |-> Rat(quietWindows(e), e.totalWindows),
       activeDurationSec     |-> Rat(A * 5, 100),
       peaksPerSecond        |-> IF A > 0 THEN Rat(peakCount(e) * 100, A * 5)
                                 ELSE Rat(0, 1),
       zcrStdDevSq           |-> zcrStdDevSq(e, ws),
       variationCoefficientSq |-> variationCoefficientSq(e)]

(***************************************************************************)
(* analyzeAudioQuality, results.  A rejection carries a reason, an         *)
(* acceptance has no reason field.                                         *)
(***************************************************************************)
ReasonTooShort ==
  "Recording is too short (< 3s). Please upload at least 3-5 seconds of continuous speech."
ReasonTooLarge ==
  "File is too large (> 5m). Please trim your clip to a shorter sample for faster processing."
ReasonTooQuiet ==
  "Audio is too quiet. We can't hear the voice clearly. Please record closer to the microphone."
ReasonDistorted ==
  "Audio is distorted (too loud). This causes artifacts. Please lower your volume or move back from the mic."
ReasonNoise ==
  "Background music or noise detected. The AI needs a clean, 'dry' voice recording without background tracks."
ReasonRobotic ==
  "Voice sounds robotic or over-processed. Please use a natural recording with normal speaking intonation."
ReasonSilence ==
  "Too much silence detected. The file is mostly empty. Please trim the silent parts so we can hear your voice."
ReasonTooSlow ==
  "Speech is too slow. Please speak at a natural, conversational pace for best cloning results."
ReasonTooFast ==
  "Speech is too fast/rushed. Please speak clearly at a moderate pace so the AI can capture articulation."
ReasonFlatPitch ==
  "Voice lacks pitch variation (monotone). Try speaking with more emotion and tonal range."

\* mutant of Valid: an acceptance that carries an (empty) reason
Valid_WithReason(score) == [valid |-> TRUE, reason |-> "", score |-> score]

Invalid(reason, score) == [valid |-> FALSE, reason |-> reason, score |-> score]
Valid(score) == [valid |-> TRUE, score |-> score]

\* Math.min / Math.max on integers
Min(a, b) == IF a < b THEN a ELSE b
Max(a, b) == IF a > b THEN a ELSE b

\* a run of the function: the result, the source line of the return
\* statement that produced it, and the locals computed by then (score is
\* Unset until the scoring logic has run)
Return(line, result, locals, score) ==
  [line |-> line, result |-> result, locals |-> locals, score |-> score]

Unset == -1

NoLocals == [totalWindows |-> 0]

(***************************************************************************)
(* SCORING LOGIC (f is the record of Dynamics)                             *)
(***************************************************************************)
\* mutant of ComputeScore: the two low-volume penalties applied
\* independently instead of as if / else if
ComputeScore_BothVolumePenalties(f) ==
  LET s0 == 100
      s1 == (IF RatLess(f.avgRMS, Rat(5, 100)) THEN s0 - 15 ELSE s0)
            - (IF RatLess(f.avgRMS, Rat(1, 10)) THEN 5 ELSE 0)
      s2 == IF RatLess(Rat(95, 100), f.globalPeak) THEN s1 - 10 ELSE s1
      s3 == IF RatLess(f.quietRatio, Rat(15, 100)) THEN s2 - 20 ELSE s2
      s4 == IF RatLess(f.variationCoefficientSq, Rat(1, 16)) THEN s3 - 15 ELSE s3
      s5 == IF RatLess(f.zcrStdDevSq, Rat(1, 40000)) THEN s4 - 10 ELSE s4
      s6 == IF \/ RatLess(f.peaksPerSecond, Rat(15, 10))
               \/ RatLess(Rat(8, 1), f.peaksPerSecond)
            THEN s5 - 10 ELSE s5
  IN  Max(0, Min(100, s6))

\* mutant of ComputeScore: the noise penalty (quietRatio < 0.15) of 45
\* points instead of 20
ComputeScore_SteepNoisePenalty(f) ==
  LET s0 == 100
      s1 == IF RatLess(f.avgRMS, Rat(5, 100)) THEN s0 - 15
            ELSE IF RatLess(f.avgRMS, Rat(1, 10)) THEN s0 - 5 ELSE s0
      s2 == IF RatLess(Rat(95, 100), f.globalPeak) THEN s1 - 10 ELSE s1
      s3 == IF RatLess(f.quietRatio, Rat(15, 100)) THEN s2 - 45 ELSE s2
      s4 == IF RatLess(f.variationCoefficientSq, Rat(1, 16)) THEN s3 - 15 ELSE s3
      s5 == IF RatLess(f.zcrStdDevSq, Rat(1, 40000)) THEN s4 - 10 ELSE s4
      s6 == IF \/ RatLess(f.peaksPerSecond, Rat(15, 10))
               \/ RatLess(Rat(8, 1), f.peaksPerSecond)
            THEN s5 - 10 ELSE s5
  IN  Max(0, Min(100, s6))

ComputeScore(f) ==
  LET s0 == 100
      s1 == IF RatLess(f.avgRMS, Rat(5, 100)) THEN s0 - 15
            ELSE IF RatLess(f.avgRMS, Rat(1, 10)) THEN s0 - 5 ELSE s0
      s2 == IF RatLess(Rat(95, 100), f.globalPeak) THEN s1 - 10 ELSE s1
      s3 == IF RatLess(f.quietRatio, Rat(15, 100)) THEN s2 - 20 ELSE s2
      \* variationCoefficient < 0.25
      s4 == IF RatLess(f.variationCoefficientSq, Rat(1, 16)) THEN s3 - 15 ELSE s3
      \* zcrStdDev < 0.005
      s5 == IF RatLess(f.zcrStdDevSq, Rat(1, 40000)) THEN s4 - 10 ELSE s4
      s6 == IF \/ RatLess(f.peaksPerSecond, Rat(15, 10))
               \/ RatLess(Rat(8, 1), f.peaksPerSecond)
            THEN s5 - 10 ELSE s5
  IN  Max(0, Min(100, s6))

(***************************************************************************)
(* HEURISTIC CHECKS A to E                                                 *)
(***************************************************************************)
\* mutant of HeuristicChecks: check B (dynamics) made before check A (noise)
HeuristicChecks_DynamicsFirst(f, score) ==
  IF RatLess(f.variationCoefficientSq, Rat(9, 400))
  THEN Return(306, Invalid(ReasonRobotic, Min(score, 45)), f, score)
  ELSE IF /\ RatLess(f.quietRatio, Rat(2, 100))
          /\ RatLess(f.variationCoefficientSq, Rat(1, 4))
  THEN Return(297, Invalid(ReasonNoise, Min(score, 40)), f, score)
  ELSE IF RatLess(Rat(95, 100), f.quietRatio)
  THEN Return(315, Invalid(ReasonSilence, Min(score, 30)), f, score)
  ELSE IF /\ RatLess(f.peaksPerSecond, Rat(5, 10))
          /\ RatLess(Rat(2, 1), f.activeDurationSec)
  THEN Return(325, Invalid(ReasonTooSlow, Min(score, 50)), f, score)
  ELSE IF RatLess(Rat(15, 1), f.peaksPerSecond)
  THEN Return(333, Invalid(ReasonTooFast, Min(score, 50)), f, score)
  ELSE IF /\ RatLess(f.zcrStdDevSq, Rat(1, 1000000))
          /\ RatLess(Rat(3, 1), f.activeDurationSec)
  THEN Return(343, Invalid(ReasonFlatPitch, Min(score, 55)), f, score)
  ELSE Return(350, Valid(score), f, score)

\* mutant of HeuristicChecks: check C (pauses) made before check B (dynamics)
HeuristicChecks_PausesFirst(f, score) ==
  IF /\ RatLess(f.quietRatio, Rat(2, 100))
     /\ RatLess(f.variationCoefficientSq, Rat(1, 4))
  THEN Return(297, Invalid(ReasonNoise, Min(score, 40)), f, score)
  ELSE IF RatLess(Rat(95, 100), f.quietRatio)
  THEN Return(315, Invalid(ReasonSilence, Min(score, 30)), f, score)
  ELSE IF RatLess(f.variationCoefficientSq, Rat(9, 400))
  THEN Return(306, Invalid(ReasonRobotic, Min(score, 45)), f, score)
  ELSE IF /\ RatLess(f.peaksPerSecond, Rat(5, 10))
          /\ RatLess(Rat(2, 1), f.activeDurationSec)
  THEN Return(325, Invalid(ReasonTooSlow, Min(score, 50)), f, score)
  ELSE IF RatLess(Rat(15, 1), f.peaksPerSecond)
  THEN Return(333, Invalid(ReasonTooFast, Min(score, 50)), f, score)
  ELSE IF /\ RatLess(f.zcrStdDevSq, Rat(1, 1000000))
          /\ RatLess(Rat(3, 1), f.activeDurationSec)
  THEN Return(343, Invalid(ReasonFlatPitch, Min(score, 55)), f, score)
  ELSE Return(350, Valid(score), f, score)

\* mutant of HeuristicChecks: check C returns the score without its cap
HeuristicChecks_SilenceUncapped(f, score) ==
  IF /\ RatLess(f.quietRatio, Rat(2, 100))
     /\ RatLess(f.variationCoefficientSq, Rat(1, 4))
  THEN Return(297, Invalid(ReasonNoise, Min(score, 40)), f, score)
  ELSE IF RatLess(f.variationCoefficientSq, Rat(9, 400))
  THEN Return(306, Invalid(ReasonRobotic, Min(score, 45)), f, score)
  ELSE IF RatLess(Rat(95, 100), f.quietRatio)
  THEN Return(315, Invalid(ReasonSilence, score), f, score)
  ELSE IF /\ RatLess(f.peaksPerSecond, Rat(5, 10))
          /\ RatLess(Rat(2, 1), f.activeDurationSec)
  THEN Return(325, Invalid(ReasonTooSlow, Min(score, 50)), f, score)
  ELSE IF RatLess(Rat(15, 1), f.peaksPerSecond)
  THEN Return(333, Invalid(ReasonTooFast, Min(score, 50)), f, score)
  ELSE IF /\ RatLess(f.zcrStdDevSq, Rat(1, 1000000))
          /\ RatLess(Rat(3, 1), f.activeDurationSec)
  THEN Return(343, Invalid(ReasonFlatPitch, Min(score, 55)), f, score)
  ELSE Return(350, Valid(score), f, score)

HeuristicChecks(f, score) ==
  IF /\ RatLess(f.quietRatio, Rat(2, 100))
     /\ RatLess(f.variationCoefficientSq, Rat(1, 4))
  THEN Return(297, Invalid(ReasonNoise, Min(score, 40)), f, score)
  ELSE IF RatLess(f.variationCoefficientSq, Rat(9, 400))
  THEN Return(306, Invalid(ReasonRobotic, Min(score, 45)), f, score)
  ELSE IF RatLess(Rat(95, 100), f.quietRatio)
  THEN Return(315, Invalid(ReasonSilence, Min(score, 30)), f, score)
  ELSE IF /\ RatLess(f.peaksPerSecond, Rat(5, 10))
          /\ RatLess(Rat(2, 1), f.activeDurationSec)
  THEN Return(325, Invalid(ReasonTooSlow, Min(score, 50)), f, score)
  ELSE IF RatLess(Rat(15, 1), f.peaksPerSecond)
  THEN Return(333, Invalid(ReasonTooFast, Min(score, 50)), f, score)
  ELSE IF /\ RatLess(f.zcrStdDevSq, Rat(1, 1000000))
          /\ RatLess(Rat(3, 1), f.activeDurationSec)
  THEN Return(343, Invalid(ReasonFlatPitch, Min(score, 55)), f, score)
  ELSE Return(350, Valid(score), f, score)

(***************************************************************************)
(* Volume and clipping checks, then the rest (e of ExtractWindows)         *)
(***************************************************************************)
\* mutant of VolumeTooLow: a threshold of 0.001
VolumeTooLow_Thousandth(e) == RatLess(e.avgRMS, Rat(1, 1000))

VolumeTooLow(e) == RatLess(e.avgRMS, Rat(1, 100))

\* mutant of Clipping: the former RMS threshold of 0.45
Clipping_FormerThreshold(e) ==
  RatLess(Rat(99, 100), e.globalPeak) /\ RatLess(Rat(45, 100), e.avgRMS)

Clipping(e) ==
  RatLess(Rat(99, 100), e.globalPeak) /\ RatLess(Rat(5, 10), e.avgRMS)

AfterWindows(e, ws) ==
  IF VolumeTooLow(e)
  THEN Return(189, Invalid(ReasonTooQuiet, 20), e, Unset)
  ELSE IF Clipping(e)
  THEN Return(194, Invalid(ReasonDistorted, 30), e, Unset)
  ELSE LET f == Dynamics(e, ws) IN HeuristicChecks(f, ComputeScore(f))

(***************************************************************************)
(* analyzeAudioQuality                                                     *)
(***************************************************************************)
AnalysisRun(buffer) ==
  IF DurationLess(buffer, 3)
  THEN Return(148, Invalid(ReasonTooShort, 0), NoLocals, Unset)
  ELSE IF DurationGreater(buffer, 300)
  THEN Return(151, Invalid(ReasonTooLarge, 0), NoLocals, Unset)
  ELSE AfterWindows(ExtractWindows(buffer), windowSizeSamples(buffer))

analyzeAudioQuality(buffer) == AnalysisRun(buffer).result

(***************************************************************************)
(* State: the buffer handed to the utilities, which of them has been       *)
(* called on it, and what the call left behind.                            *)
(***************************************************************************)
VARIABLES buffer, called, result, returnedAt, locals, score, frameLimit, wav,
          previous, pcm, decoded, loop, app, segment, player, library

vars == <<buffer, called, result, returnedAt, locals, score, frameLimit, wav,
          previous, pcm, decoded, loop, app, segment, player, library>>

\* a segment handed to calculateZCR, the playback state of the application
\* and its voice library
rest == <<segment, player, library>>

\* the state of the other parts of the program: the first result of a
\* repeated analysis, the decoder's input and output, the window loop run
\* step by step, the application
others == <<previous, pcm, decoded, loop, app, rest>>

NoWav == <<>>

NoResult == [valid |-> FALSE, reason |-> "(no call yet)", score |-> -1]

NoPcm == [bytes |-> <<>>, sampleRate |-> 0, numChannels |-> 0]

NoBuffer == [status |-> "none"]

NoLoop == [pc |-> "none"]

NoApp == [mounted |-> FALSE]

\* nothing but the analysis or the encoder is in use
NoSegment == [pc |-> "none"]

NoPlayer == [pc |-> "none"]

NoLibrary == [pc |-> "none"]

RestIdle ==
  /\ segment = NoSegment
  /\ player = NoPlayer
  /\ library = NoLibrary

OthersIdle ==
  /\ previous = NoResult
  /\ pcm = NoPcm
  /\ decoded = NoBuffer
  /\ loop = NoLoop
  /\ app = NoApp
  /\ RestIdle

BlockTypes(amps) == [amp : amps, alt : BOOLEAN]

Motifs(amps) == {<<a, b>> : a \in BlockTypes(amps), b \in BlockTypes(amps)}

LoudBlock == [amp |-> 96, alt |-> FALSE]

\* amplitudes of the analysed buffers, in units of 1 / Scale
AnalysisAmps == {0, 2, 28, 96, 128}

AnalysisRates == {40, 60}

\* frame counts around the 3 second and the 300 second limits
AnalysisLengths(sr) ==
  {2 * sr, 3 * sr - 1, 3 * sr,
   3 * sr + MaxExtraWindows * ((sr * 5) \div 100) + 1,
   300 * sr + 1}

AnalysisBuffers ==
  {[sampleRate |-> sr, numberOfChannels |-> 1, length |-> n,
    lead |-> LoudBlock, leadN |-> k, motif |-> m] :
      sr \in AnalysisRates, n \in UNION {AnalysisLengths(r) : r \in AnalysisRates},
      k \in {0, 1, LongLead}, m \in Motifs(AnalysisAmps)}

\* buffers of exactly 300 seconds, quiet throughout (amplitude 0 or 1 / Scale)
LongQuietBuffers ==
  {[sampleRate |-> sr, numberOfChannels |-> 1, length |-> 300 * sr,
    lead |-> LoudBlock, leadN |-> 0, motif |-> <<t, t>>] :
      sr \in AnalysisRates, t \in BlockTypes({0, 1})}

Init ==
  /\ buffer \in {b \in AnalysisBuffers : b.length \in AnalysisLengths(b.sampleRate)}
                   \cup LongQuietBuffers
  /\ called = "none"
  /\ result = NoResult
  /\ returnedAt = 0
  /\ locals = NoLocals
  /\ score = Unset
  /\ frameLimit = 0
  /\ wav = NoWav
  /\ OthersIdle

\* analyzeAudioQuality(buffer)
Analyze ==
  /\ called = "none"
  /\ LET run == AnalysisRun(buffer)
     IN  /\ result' = run.result
         /\ returnedAt' = run.line
         /\ locals' = run.locals
         /\ score' = run.score
  /\ called' = "analyzeAudioQuality"
  /\ UNCHANGED <<buffer, frameLimit, wav, others>>

Next == Analyze

Spec == Init /\ [][Next]_vars

(***************************************************************************)
(* The encoder, on short buffers of one or two channels                    *)
(***************************************************************************)
\* amplitudes of the encoded buffers: 64 and 65 lie on either side of the
\* -0.5 at which the scale factor changes, 192 is outside [-1, 1]
WaveAmps == {0, 64, 65, 128, 192}

WaveLengths == {0, 1, 44, 45, 44 + MaxExtraFrames}

WaveBuffers ==
  {[sampleRate |-> 40, numberOfChannels |-> ch, length |-> n,
    lead |-> LoudBlock, leadN |-> k, motif |-> m] :
      ch \in {1, 2}, n \in WaveLengths, k \in {0, 1}, m \in Motifs(WaveAmps)}
  \cup
  {[sampleRate |-> 24000, numberOfChannels |-> ch, length |-> n,
    lead |-> LoudBlock, leadN |-> 0, motif |-> <<t, t>>] :
      ch \in {1, 2}, n \in WaveLengths, t \in BlockTypes(WaveAmps)}

InitWave ==
  /\ buffer \in WaveBuffers
  /\ called = "none"
  /\ result = NoResult
  /\ returnedAt = 0
  /\ locals = NoLocals
  /\ score = Unset
  /\ frameLimit = 0
  /\ wav = NoWav
  /\ OthersIdle

\* the frame limits a caller may pass: the whole buffer (handleDownload),
\* one frame less or one frame more
FrameLimits(abuffer) ==
  {abuffer.length, abuffer.length + 1}
    \cup (IF abuffer.length > 0 THEN {abuffer.length - 1} ELSE {})

\* bufferToWave(buffer, len)
Encode ==
  /\ called = "none"
  /\ \E len \in FrameLimits(buffer) :
       /\ frameLimit' = len
       /\ wav' = bufferToWave(buffer, len)
  /\ called' = "bufferToWave"
  /\ UNCHANGED <<buffer, result, returnedAt, locals, score, others>>

NextWave == Encode

SpecWave == InitWave /\ [][NextWave]_vars

(***************************************************************************)
(* The quantities of the gates, recomputed from the buffer in the state    *)
(***************************************************************************)
Analysed == called = "analyzeAudioQuality"

\* the duration of the buffer in the state, length / sampleRate seconds
ShorterThan3s == buffer.length < 3 * buffer.sampleRate
LongerThan300s == buffer.length > 300 * buffer.sampleRate

InDurationRange == ~ShorterThan3s /\ ~LongerThan300s

\* the locals of the window loop: those the call left behind, computed
\* afresh when the call returned before the loop
E ==
  IF "avgRMS" \in DOMAIN locals THEN locals ELSE ExtractWindows(buffer)

\* the locals of the dynamics analysis, likewise
F ==
  IF "quietRatio" \in DOMAIN locals THEN locals
  ELSE Dynamics(ExtractWindows(buffer), windowSizeSamples(buffer))

Gate1 == ShorterThan3s
Gate2 == LongerThan300s
Gate3 == RatLess(E.avgRMS, Rat(1, 100))
Gate4 == RatLess(Rat(99, 100), E.globalPeak) /\ RatLess(Rat(1, 2), E.avgRMS)
Gate6 == RatLess(F.quietRatio, Rat(2, 100)) /\ RatLess(F.variationCoefficientSq, Rat(25, 100))
Gate7 == RatLess(F.variationCoefficientSq, Rat(225, 10000))
Gate8 == RatLess(Rat(95, 100), F.quietRatio)
Gate9 == RatLess(F.peaksPerSecond, Rat(1, 2)) /\ F.activeWindowsCount > 40
Gate10 == RatLess(Rat(15, 1), F.peaksPerSecond)
Gate11 == RatLess(F.zcrStdDevSq, Rat(1, 1000000)) /\ F.activeWindowsCount > 60

\* the lowest-numbered gate whose condition holds, 12 when none does (the
\* quantities of a later gate are defined only once the earlier gates pass)
LowestGate ==
  IF Gate1 THEN 1 ELSE IF Gate2 THEN 2 ELSE IF Gate3 THEN 3
  ELSE IF Gate4 THEN 4 ELSE IF Gate6 THEN 6 ELSE IF Gate7 THEN 7
  ELSE IF Gate8 THEN 8 ELSE IF Gate9 THEN 9 ELSE IF Gate10 THEN 10
  ELSE IF Gate11 THEN 11 ELSE 12

GateReason(g) ==
  CASE g = 1 -> ReasonTooShort
    [] g = 2 -> ReasonTooLarge
    [] g = 3 -> ReasonTooQuiet
    [] g = 4 -> ReasonDistorted
    [] g = 6 -> ReasonNoise
    [] g = 7 -> ReasonRobotic
    [] g = 8 -> ReasonSilence
    [] g = 9 -> ReasonTooSlow
    [] g = 10 -> ReasonTooFast
    [] g = 11 -> ReasonFlatPitch

\* C1: the reason returned is that of the lowest-numbered gate (1-4, 6-11)
\* whose condition holds, and the result is valid exactly when none holds.
C1_GateOrder ==
  Analysed =>
    /\ result.valid = (LowestGate = 12)
    /\ LowestGate # 12 => result.reason = GateReason(LowestGate)

\* C1 witness: a buffer that meets gate 6 and gate 7 is rejected by gate 6.
C1_Witness ==
  /\ Analysed /\ InDurationRange
  /\ ~Gate3 /\ ~Gate4 /\ Gate6 /\ Gate7
  /\ result.reason = ReasonNoise

\* the deductions of the scoring logic that apply to the buffer
Deductions ==
    (IF RatLess(F.avgRMS, Rat(5, 100)) THEN 15
     ELSE IF RatLess(F.avgRMS, Rat(10, 100)) THEN 5 ELSE 0)
  + (IF RatLess(Rat(95, 100), F.globalPeak) THEN 10 ELSE 0)
  + (IF RatLess(F.quietRatio, Rat(15, 100)) THEN 20 ELSE 0)
  + (IF RatLess(F.variationCoefficientSq, Rat(625, 10000)) THEN 15 ELSE 0)
  + (IF RatLess(F.zcrStdDevSq, Rat(25, 1000000)) THEN 10 ELSE 0)
  + (IF RatLess(F.peaksPerSecond, Rat(15, 10)) \/ RatLess(Rat(8, 1), F.peaksPerSecond)
     THEN 10 ELSE 0)

PassesHardGates == InDurationRange /\ ~Gate3 /\ ~Gate4

NoSoftGate == ~Gate6 /\ ~Gate7 /\ ~Gate8 /\ ~Gate9 /\ ~Gate10 /\ ~Gate11

\* C4: for a buffer that passes gates 1-4 the computed score is 100 minus
\* the applicable deductions, clamped to [0,100]; deductions do not gate:
\* when no soft gate holds the result is valid with that score.
C4_Score ==
  (Analysed /\ PassesHardGates) =>
    /\ score = Max(0, Min(100, 100 - Deductions))
    /\ NoSoftGate => result = [valid |-> TRUE, score |-> score]

\* C4 witness: a valid result that carries deductions from several rules.
C4_Witness ==
  /\ Analysed /\ PassesHardGates
  /\ result.valid /\ result.score <= 60 /\ Deductions >= 40

SoftCap(reason) ==
  CASE reason = ReasonNoise -> 40
    [] reason = ReasonRobotic -> 45
    [] reason = ReasonSilence -> 30
    [] reason = ReasonTooSlow -> 50
    [] reason = ReasonTooFast -> 50
    [] reason = ReasonFlatPitch -> 55

SoftReasons ==
  {ReasonNoise, ReasonRobotic, ReasonSilence, ReasonTooSlow, ReasonTooFast,
   ReasonFlatPitch}

\* C5: a rejection by a soft gate 6-11 returns min(computed score, cap of
\* that gate), so its score never exceeds the cap.
C5_SoftCaps ==
  (Analysed /\ ~result.valid /\ result.reason \in SoftReasons) =>
    /\ result.score = Min(score, SoftCap(result.reason))
    /\ result.score <= SoftCap(result.reason)

\* C5 witness: a soft rejection whose computed score was above the cap.
C5_Witness ==
  /\ Analysed /\ ~result.valid /\ result.reason = ReasonSilence
  /\ score > 30 /\ result.score = 30

(***************************************************************************)
(* The window energies read off the buffer's pattern: every frame of       *)
(* block b has magnitude BlockAmp(b), and a block is an analysis window.   *)
(***************************************************************************)
BlockAmp(b) == BlockType(buffer, b).amp

FullWindows == 0..(totalWindows(buffer) - 1)

AmpTotal ==
  SumTo([i \in 1..totalWindows(buffer) |-> BlockAmp(i - 1)], totalWindows(buffer))

\* mean window RMS < num / den, resp. > num / den
MeanRMSBelow(num, den) == AmpTotal * den < num * Scale * totalWindows(buffer)
MeanRMSAbove(num, den) == AmpTotal * den > num * Scale * totalWindows(buffer)

\* some sample of a full window exceeds 0.99 in magnitude
PeakAbove99 == \E b \in FullWindows : BlockAmp(b) * 100 > 99 * Scale

AllWindowsSameRMS == \A b \in FullWindows : BlockAmp(b) = BlockAmp(0)

ConstantEnergyCase ==
  /\ Analysed /\ InDurationRange
  /\ buffer.numberOfChannels = 1
  /\ AllWindowsSameRMS
  /\ ~MeanRMSBelow(1, 100)
  /\ ~PeakAbove99

\* C6 as claimed: a mono buffer of at least 3 seconds (taken here as 3 to
\* 300 seconds, the range in which the dynamics are analysed at all) whose
\* windows all have the same RMS, with avgRMS >= 0.01 and no clipping, is
\* rejected with the monotone/over-processed reason and a score of at most 45.
C6_AsClaimed ==
  ConstantEnergyCase =>
    /\ ~result.valid
    /\ result.reason = ReasonRobotic
    /\ result.score <= 45

\* C6 amended: such a buffer is rejected with a score of at most 45, with
\* the monotone/over-processed reason only when the common window RMS is
\* below 0.02 (then every interior window is quiet); otherwise gate 6,
\* evaluated first, rejects it as background noise with a score of at most 40.
C6_ConstantEnergy ==
  ConstantEnergyCase =>
    /\ ~result.valid
    /\ result.score <= 45
    /\ IF BlockAmp(0) * 100 < 2 * Scale
       THEN result.reason = ReasonRobotic
       ELSE result.reason = ReasonNoise /\ result.score <= 40

\* C6 witness: constant amplitude 28/128 (about 0.22, the RMS of a 0.3
\* sine), rejected as background noise.
C6_Witness ==
  /\ ConstantEnergyCase
  /\ BlockAmp(0) = 28
  /\ result.reason = ReasonNoise

\* C7: a buffer shorter than 3 s is rejected as too short with score 0, one
\* longer than 300 s as too large with score 0, whatever its samples and
\* before the window loop has read any of them.
C7_Duration ==
  Analysed =>
    /\ ShorterThan3s =>
         /\ result = Invalid(ReasonTooShort, 0)
         /\ returnedAt = 148 /\ locals = NoLocals
    /\ LongerThan300s =>
         /\ result = Invalid(ReasonTooLarge, 0)
         /\ returnedAt = 151 /\ locals = NoLocals

\* C7 witness: a loud buffer one frame short of 3 seconds, rejected as too short.
C7_Witness ==
  /\ Analysed
  /\ buffer.length = 3 * buffer.sampleRate - 1
  /\ \A k \in 0..(buffer.length - 1) : Abs(SampleAt(buffer, 0, k)) = Scale
  /\ result = Invalid(ReasonTooShort, 0)

\* C8: a buffer of 3 to 300 seconds whose mean window RMS is below 0.01 is
\* rejected as too quiet with score exactly 20, by the volume check itself:
\* neither the clipping check nor the scoring logic is reached.
C8_TooQuiet ==
  (Analysed /\ InDurationRange /\ MeanRMSBelow(1, 100)) =>
    /\ result = Invalid(ReasonTooQuiet, 20)
    /\ returnedAt = 189
    /\ score = Unset

\* C8 witness: an all-zero buffer, analysed.
C8_Witness ==
  /\ Analysed /\ InDurationRange
  /\ \A b \in FullWindows : BlockAmp(b) = 0
  /\ result = Invalid(ReasonTooQuiet, 20)

\* C9: a buffer of 3 to 300 seconds with avgRMS >= 0.01, globalPeak > 0.99
\* and avgRMS > 0.5 is rejected as distorted with score exactly 30; with
\* globalPeak > 0.99 and avgRMS <= 0.5 the clipping check does not reject it.
C9_Clipping ==
  (Analysed /\ InDurationRange /\ ~MeanRMSBelow(1, 100) /\ PeakAbove99) =>
    IF MeanRMSAbove(1, 2)
    THEN result = Invalid(ReasonDistorted, 30)
    ELSE returnedAt # 194 /\ (~result.valid => result.reason # ReasonDistorted)

\* C9 witness: peak 1.0 with mean RMS about 0.6, rejected as distorted.
C9_Witness ==
  /\ Analysed /\ InDurationRange /\ PeakAbove99
  /\ MeanRMSAbove(1, 2) /\ MeanRMSBelow(65, 100)
  /\ result = Invalid(ReasonDistorted, 30)

\* C10: every result has an integer score in [0,100] and carries a reason
\* if and only if it is not valid.
C10_ResultShape ==
  Analysed =>
    /\ result.score \in 0..100
    /\ ("reason" \in DOMAIN result) <=> ~result.valid

\* C10 witness: an accepted buffer, whose result has no reason.
C10_Witness ==
  /\ Analysed /\ result.valid
  /\ DOMAIN result = {"valid", "score"}

(***************************************************************************)
(* The encoder's output, read back                                         *)
(***************************************************************************)
Encoded == called = "bufferToWave"

\* the little-endian signed 16-bit word at byte offset at of the output
Int16At(at) ==
  LET u == wav[at + 1] + 256 * wav[at + 2]
  IN  IF u >= 32768 THEN u - 65536 ELSE u

Frames == 0..(frameLimit - 1)

Channels == 0..(buffer.numberOfChannels - 1)

\* the byte offset claimed for the word of frame k, channel c
WordOffset(k, c) == 44 + 2 * (k * buffer.numberOfChannels + c)

\* the 16-bit value of a sample: clamped to [-1, 1], scaled, truncated
Quantized(x) ==
  LET s == IF x > Scale THEN Scale ELSE IF x < -Scale THEN -Scale ELSE x
      q == IF 2 * s < -Scale THEN s * 32768 ELSE s * 32767
  IN  IF q >= 0 THEN q \div Scale ELSE -((-q) \div Scale)

\* C2: for every frame k < frameLimit and every channel c, the word at byte
\* offset 44 + 2*(k*channelCount + c) is the quantized sample k of channel c.
C2_EveryFrameWritten ==
  Encoded =>
    \A k \in Frames : \A c \in Channels :
      k < buffer.length =>
        Int16At(WordOffset(k, c)) = Quantized(SampleAt(buffer, c, k))

\* |a / b - c / d| <= 1 / e for b, d, e > 0
WithinOneOver(a, b, c, d, e) ==
  LET diff == IF a * d >= c * b THEN a * d - c * b ELSE c * b - a * d
  IN  ~FracLess(1, e, diff, b * d)

\* C3: for a buffer with samples in [-1, 1] encoded whole (frameLimit = its
\* frame count), each data word w read back as w / 32768 is within 1/32767
\* of the original sample of the same frame and channel.
C3_RoundTrip ==
  (/\ Encoded
   /\ frameLimit = buffer.length
   /\ \A k \in Frames : \A c \in Channels : Abs(SampleAt(buffer, c, k)) <= Scale) =>
    \A k \in Frames : \A c \in Channels :
      WithinOneOver(Int16At(WordOffset(k, c)), 32768, SampleAt(buffer, c, k), Scale, 32767)

(***************************************************************************)
(* The application (App.tsx): the reference file the user picked, the      *)
(* asynchronous handlers that validate it and send it to remote synthesis. *)
(* A handler runs from one await to the next in one step; its constants    *)
(* (clonedFile, mode) are those of the render it was created in.  Of       *)
(* generateSpeech only the call and its options are modelled.              *)
(***************************************************************************)
\* the files a user may pick: one the analysis accepts, one it rejects (as
\* too short), one the browser cannot decode
Files == {"good", "short", "corrupt"}

\* audioContextRef.current.decodeAudioData(arrayBuffer) resolves
Decodes(file) == file # "corrupt"

\* the AudioBuffer it resolves to
FileBuffer(file) ==
  [sampleRate |-> 20, numberOfChannels |-> 1,
   length |-> IF file = "short" THEN 40 ELSE 60,
   lead |-> LoudBlock, leadN |-> 0,
   motif |-> <<[amp |-> 28, alt |-> FALSE], [amp |-> 96, alt |-> FALSE]>>]

\* mutant of validateAndAnalyzeAudio: a failed analysis is logged but not
\* thrown, the score being returned all the same
validateAndAnalyzeAudio_NoThrow(file, mounted) ==
  IF ~mounted THEN [threw |-> FALSE, analysedValid |-> FALSE, score |-> 0]
  ELSE IF ~Decodes(file) THEN [threw |-> TRUE, analysedValid |-> FALSE, score |-> 0]
  ELSE LET analysis == analyzeAudioQuality(FileBuffer(file))
       IN  [threw |-> FALSE, analysedValid |-> analysis.valid,
            score |-> analysis.score]

\* validateAndAnalyzeAudio(file): whether the promise rejects, whether
\* analyzeAudioQuality returned valid:true on the way, and the score returned
validateAndAnalyzeAudio(file, mounted) ==
  IF ~mounted THEN [threw |-> FALSE, analysedValid |-> FALSE, score |-> 0]
  ELSE IF ~Decodes(file) THEN [threw |-> TRUE, analysedValid |-> FALSE, score |-> 0]
  ELSE LET analysis == analyzeAudioQuality(FileBuffer(file))
       IN  IF ~analysis.valid
           THEN [threw |-> TRUE, analysedValid |-> FALSE, score |-> 0]
           ELSE [threw |-> FALSE, analysedValid |-> TRUE, score |-> analysis.score]

\* a handler invocation at rest
IdleHandler == [pc |-> "idle", file |-> "null", analysedValid |-> FALSE]

\* the options of a generateSpeech call: the reference file (or "null") and
\* whether this invocation saw analyzeAudioQuality accept it
SpeechCall(handler, referenceAudio, analysedValid) ==
  [handler |-> handler, referenceAudio |-> referenceAudio,
   analysedValid |-> analysedValid]

InitApp ==
  /\ app = [mounted |-> FALSE, clonedFile |-> "null", mode |-> "standard",
            processing |-> "null", preview |-> IdleHandler,
            generate |-> IdleHandler, calls |-> {}]
  /\ buffer = FileBuffer("good")
  /\ called = "none"
  /\ result = NoResult
  /\ returnedAt = 0
  /\ locals = NoLocals
  /\ score = Unset
  /\ frameLimit = 0
  /\ RestIdle
  /\ wav = NoWav
  /\ previous = NoResult
  /\ pcm = NoPcm
  /\ decoded = NoBuffer
  /\ loop = NoLoop

AppUnchanged ==
  UNCHANGED <<buffer, called, result, returnedAt, locals, score, frameLimit,
              wav, previous, pcm, decoded, loop, rest>>

\* useEffect: audioContextRef.current = ctx
Mount ==
  /\ ~app.mounted
  /\ app' = [app EXCEPT !.mounted = TRUE]
  /\ AppUnchanged

\* setMode('standard') / setMode('clone')
SetMode ==
  /\ \E m \in {"standard", "clone"} :
       /\ m # app.mode
       /\ app' = [app EXCEPT !.mode = m]
  /\ AppUnchanged

\* handleFileSelect(file) / handleSelectSavedVoice(voice), up to the first
\* await of processFile: setClonedFile(file)
SelectFile ==
  /\ app.processing = "null"
  /\ \E f \in Files :
       app' = [app EXCEPT !.clonedFile = f, !.processing = f]
  /\ AppUnchanged

\* handleFileSelect(null)
ClearFile ==
  /\ app.clonedFile # "null"
  /\ app' = [app EXCEPT !.clonedFile = "null"]
  /\ AppUnchanged

\* processFile after its awaits: setClonedFile(null) if the validation threw
ProcessFileDone ==
  /\ app.processing # "null"
  /\ app' = [app EXCEPT
       !.processing = "null",
       !.clonedFile =
          IF validateAndAnalyzeAudio(app.processing, app.mounted).threw
          THEN "null" ELSE @]
  /\ AppUnchanged

\* handlePreview up to its first await
PreviewStart ==
  /\ app.preview.pc = "idle"
  /\ app.clonedFile # "null" /\ app.mounted
  /\ app' = [app EXCEPT !.preview =
       [pc |-> "validate", file |-> app.clonedFile, analysedValid |-> FALSE]]
  /\ AppUnchanged

\* await validateAndAnalyzeAudio(clonedFile) in handlePreview
PreviewValidate ==
  /\ app.preview.pc = "validate"
  /\ LET v == validateAndAnalyzeAudio(app.preview.file, app.mounted)
     IN  app' = [app EXCEPT !.preview =
           IF v.threw THEN IdleHandler
           ELSE [@ EXCEPT !.pc = "base64", !.analysedValid = v.analysedValid]]
  /\ AppUnchanged

\* await fileToBase64(clonedFile) in handlePreview: resolves or rejects
PreviewBase64 ==
  /\ app.preview.pc = "base64"
  /\ \E ok \in BOOLEAN :
       app' = [app EXCEPT !.preview =
         IF ok THEN [@ EXCEPT !.pc = "synth"] ELSE IdleHandler]
  /\ AppUnchanged

\* generateSpeech({text, referenceAudio}) in handlePreview
PreviewGenerateSpeech ==
  /\ app.preview.pc = "synth"
  /\ app' = [app EXCEPT
       !.calls = @ \cup {SpeechCall("handlePreview", app.preview.file,
                                    app.preview.analysedValid)},
       !.preview = IdleHandler]
  /\ AppUnchanged

\* handleGenerate up to its first await; text and the API key are present
\* (otherwise it returns at once).  Outside the clone branch the options
\* carry no referenceAudio.
GenerateStart ==
  /\ app.generate.pc = "idle"
  /\ ~(app.mode = "clone" /\ app.clonedFile = "null")
  /\ app' = [app EXCEPT !.generate =
       IF app.mode = "clone" /\ app.clonedFile # "null" /\ app.mounted
       THEN [pc |-> "validate", file |-> app.clonedFile, analysedValid |-> FALSE]
       ELSE [pc |-> "synth", file |-> "null", analysedValid |-> FALSE]]
  /\ AppUnchanged

\* await validateAndAnalyzeAudio(clonedFile) in handleGenerate
GenerateValidate ==
  /\ app.generate.pc = "validate"
  /\ LET v == validateAndAnalyzeAudio(app.generate.file, app.mounted)
     IN  app' = [app EXCEPT !.generate =
           IF v.threw THEN IdleHandler
           ELSE [@ EXCEPT !.pc = "base64", !.analysedValid = v.analysedValid]]
  /\ AppUnchanged

\* await fileToBase64(clonedFile) in handleGenerate
GenerateBase64 ==
  /\ app.generate.pc = "base64"
  /\ \E ok \in BOOLEAN :
       app' = [app EXCEPT !.generate =
         IF ok THEN [@ EXCEPT !.pc = "synth"] ELSE IdleHandler]
  /\ AppUnchanged

\* generateSpeech(options) in handleGenerate
GenerateGenerateSpeech ==
  /\ app.generate.pc = "synth"
  /\ app' = [app EXCEPT
       !.calls = @ \cup {SpeechCall("handleGenerate", app.generate.file,
                                    app.generate.analysedValid)},
       !.generate = IdleHandler]
  /\ AppUnchanged

NextApp ==
  \/ Mount \/ SetMode \/ SelectFile \/ ClearFile \/ ProcessFileDone
  \/ PreviewStart \/ PreviewValidate \/ PreviewBase64 \/ PreviewGenerateSpeech
  \/ GenerateStart \/ GenerateValidate \/ GenerateBase64 \/ GenerateGenerateSpeech

SpecApp == InitApp /\ [][NextApp]_vars

\* the file is one analyzeAudioQuality accepts once decoded
FileIsValid(file) ==
  /\ Decodes(file)
  /\ AnalysisRun(FileBuffer(file)).line = 350

\* C11: every generateSpeech call that carries a referenceAudio was made by
\* a handler invocation in which analyzeAudioQuality had returned valid:true
\* for that file; no invalid or undecodable file reaches remote synthesis.
C11_ValidatedBeforeSynthesis ==
  /\ \A c \in app.calls : c.referenceAudio # "null" => c.analysedValid
  /\ \A f \in {c.referenceAudio : c \in app.calls} \ {"null"} : FileIsValid(f)

\* C11 witness: both handlers have sent the accepted file to synthesis
\* while a rejected file is the one currently selected.
C11_Witness ==
  /\ SpeechCall("handlePreview", "good", TRUE) \in app.calls
  /\ SpeechCall("handleGenerate", "good", TRUE) \in app.calls
  /\ app.clonedFile = "short"

(***************************************************************************)
(* decodeAudioData.  The input is the byte sequence decodeBase64 yields;   *)
(* a decoded sample is the pair <<v, 32768>> standing for v / 32768.0,     *)
(* which is exact in Float32 for every 16-bit v.  The two platform calls   *)
(* of the function are modelled with the exceptions they raise.            *)
(***************************************************************************)
\* words of the longest PCM payload decoded
MaxWords == 4

\* stands for a count of 2^32 - |x|, which a negative argument converts to
\* as an unsigned long: beyond every count a browser supports
OutOfRange == 2147483647

\* the most channels createBuffer accepts
MaxChannels == 32

Thrown(name) == [status |-> "error", name |-> name]

\* the signed 16-bit value of two bytes, low byte first
Int16Of(lo, hi) ==
  LET u == lo + 256 * hi IN IF u >= 32768 THEN u - 65536 ELSE u

\* mutant of NewInt16Array: an odd trailing byte is dropped, not refused
NewInt16Array_DropsOddByte(bytes) ==
  [status |-> "ok",
   words  |-> [k \in 1..(Len(bytes) \div 2) |->
                  Int16Of(bytes[2 * k - 1], bytes[2 * k])]]

\* new Int16Array(bytes.buffer): a RangeError unless the byte length is a
\* multiple of 2
NewInt16Array(bytes) ==
  IF Len(bytes) % 2 # 0 THEN Thrown("RangeError")
  ELSE [status |-> "ok",
        words  |-> [k \in 1..(Len(bytes) \div 2) |->
                       Int16Of(bytes[2 * k - 1], bytes[2 * k])]]

\* an argument of type unsigned long: the number truncated toward zero,
\* Infinity and NaN (a zero divisor) becoming 0, a negative number wrapping
UnsignedLong(n, d) ==
  IF d = 0 THEN 0
  ELSE IF (n < 0 /\ d > 0 /\ -n >= d) \/ (n > 0 /\ d < 0 /\ n >= -d) THEN OutOfRange
  ELSE IF (n < 0) # (d < 0) THEN 0
  ELSE Abs(n) \div Abs(d)

\* ctx.createBuffer(numChannels, n / d, sampleRate): NotSupportedError
\* unless there are 1..MaxChannels channels and at least one frame
createBuffer(numChannels, n, d, sampleRate) ==
  LET numberOfChannels == IF numChannels < 0 THEN OutOfRange ELSE numChannels
      length           == UnsignedLong(n, d)
  IN  IF \/ numberOfChannels = 0 \/ numberOfChannels > MaxChannels
         \/ length = 0 \/ length = OutOfRange
      THEN Thrown("NotSupportedError")
      ELSE [status |-> "buffer", numberOfChannels |-> numberOfChannels,
            length |-> length, sampleRate |-> sampleRate,
            channels |-> [c \in 1..numberOfChannels |-> [i \in 1..length |-> <<0, 1>>]]]

\* mutant of ChannelSample: the words read as planar, channel after channel
ChannelSample_Planar(dataInt16, numChannels, channel, i) ==
  <<dataInt16[i + channel * (Len(dataInt16) \div numChannels) + 1], 32768>>

\* dataInt16[i * numChannels + channel] / 32768.0
ChannelSample(dataInt16, numChannels, channel, i) ==
  <<dataInt16[i * numChannels + channel + 1], 32768>>

RECURSIVE DecodeChannel(_, _, _, _, _)
\* for (let i = 0; i < frameCount; i++) channelData[i] = ..., frameCount
\* being dataInt16.length / numChannels, not rounded; a write past the end
\* of the Float32Array is ignored
DecodeChannel(channelData, dataInt16, numChannels, channel, i) ==
  IF i * numChannels < Len(dataInt16)
  THEN DecodeChannel(
         IF i < Len(channelData)
         THEN [channelData EXCEPT ![i + 1] =
                 ChannelSample(dataInt16, numChannels, channel, i)]
         ELSE channelData,
         dataInt16, numChannels, channel, i + 1)
  ELSE channelData

\* decodeAudioData(base64Data, ctx, sampleRate, numChannels): the buffer
\* the promise resolves to, or the exception it rejects with
decodeAudioData(bytes, sampleRate, numChannels) ==
  LET dataInt16 == NewInt16Array(bytes)
  IN  IF dataInt16.status = "error" THEN dataInt16
      ELSE LET created == createBuffer(numChannels, Len(dataInt16.words),
                                       numChannels, sampleRate)
           IN  IF created.status = "error" THEN created
               ELSE [created EXCEPT !.channels =
                       [c \in 1..numChannels |->
                          DecodeChannel(created.channels[c], dataInt16.words,
                                        numChannels, c - 1, 0)]]

\* the int16 words of the payloads
PcmWords == {-32768, -1, 0, 1, 32767}

RECURSIVE WordsUpTo(_)
WordsUpTo(n) ==
  IF n = 0 THEN {<<>>}
  ELSE WordsUpTo(n - 1) \cup
       {Append(w, x) : w \in {s \in WordsUpTo(n - 1) : Len(s) = n - 1}, x \in PcmWords}

RECURSIVE BytesOf(_)
\* the words as bytes, low byte first
BytesOf(words) ==
  IF words = <<>> THEN <<>>
  ELSE LET u == Head(words) % 65536
       IN  <<u % 256, u \div 256>> \o BytesOf(Tail(words))

\* payloads: whole words, or whole words and one odd byte
PcmInputs ==
  {[bytes |-> BytesOf(w) \o tail, sampleRate |-> 24000, numChannels |-> ch] :
     w \in WordsUpTo(MaxWords), tail \in {<<>>, <<7>>}, ch \in {-1, 0, 1, 2, 3}}

InitDecode ==
  /\ pcm \in PcmInputs
  /\ decoded = NoBuffer
  /\ buffer = FileBuffer("good")
  /\ called = "none"
  /\ result = NoResult
  /\ returnedAt = 0
  /\ locals = NoLocals
  /\ score = Unset
  /\ frameLimit = 0
  /\ RestIdle
  /\ wav = NoWav
  /\ previous = NoResult
  /\ loop = NoLoop
  /\ app = NoApp

\* decodeAudioData(base64Data, ctx, sampleRate, numChannels)
Decode ==
  /\ called = "none"
  /\ decoded' = decodeAudioData(pcm.bytes, pcm.sampleRate, pcm.numChannels)
  /\ called' = "decodeAudioData"
  /\ UNCHANGED <<buffer, result, returnedAt, locals, score, frameLimit, wav,
                 previous, pcm, loop, app, rest>>

NextDecode == Decode

SpecDecode == InitDecode /\ [][NextDecode]_vars

(***************************************************************************)
(* The decoder's output against its input                                  *)
(***************************************************************************)
Decoded == called = "decodeAudioData"

\* the int16 words of the payload, read off its bytes (whole words only)
PayloadWords ==
  [k \in 1..(Len(pcm.bytes) \div 2) |->
     LET u == pcm.bytes[2 * k - 1] + 256 * pcm.bytes[2 * k]
     IN  IF u > 32767 THEN u - 65536 ELSE u]

EvenLength == Len(pcm.bytes) % 2 = 0

WholeFrames == (Len(pcm.bytes) \div 2) \div pcm.numChannels

\* C12: for an even-length byte sequence and channelCount >= 1 the decoder
\* produces a buffer of floor(bytes.length / 2 / channelCount) frames, the
\* words of a trailing incomplete frame appearing in no channel.
C12_FrameCount ==
  (Decoded /\ EvenLength /\ pcm.numChannels >= 1) =>
    /\ decoded.status = "buffer"
    /\ decoded.length = WholeFrames
    /\ \A c \in 1..pcm.numChannels : Len(decoded.channels[c]) = WholeFrames

\* C13: for every frame f < frameCount and channel c < channelCount, channel
\* c sample f is int16[f * channelCount + c] / 32768: -32768 gives exactly
\* -1.0 and 32767 a value strictly below +1.0.
C13_Deinterleave ==
  (Decoded /\ decoded.status = "buffer") =>
    \A c \in 0..(decoded.numberOfChannels - 1) : \A f \in 0..(decoded.length - 1) :
      LET s == decoded.channels[c + 1][f + 1]
          v == PayloadWords[f * pcm.numChannels + c + 1]
      IN  /\ s = <<v, 32768>>
          /\ v = -32768 => s[1] = -s[2]
          /\ v = 32767 => s[1] < s[2]

\* C13 witness: two channels of two frames holding both extreme words.
C13_Witness ==
  /\ Decoded /\ decoded.status = "buffer"
  /\ decoded.numberOfChannels = 2 /\ decoded.length = 2
  /\ decoded.channels[1] = << <<-32768, 32768>>, <<1, 32768>> >>
  /\ decoded.channels[2] = << <<32767, 32768>>, <<-1, 32768>> >>

\* C14: when the byte length is not a multiple of 2 or channelCount <= 0 the
\* decoder fails with an error and returns no buffer.
C14_Rejects ==
  (Decoded /\ (~EvenLength \/ pcm.numChannels <= 0)) =>
    /\ decoded.status = "error"
    /\ decoded.name \in {"RangeError", "NotSupportedError"}
    /\ "channels" \notin DOMAIN decoded

\* C14 witness: an odd-length payload of more than a frame, one channel,
\* refused with a RangeError.
C14_Witness ==
  /\ Decoded /\ ~EvenLength /\ Len(pcm.bytes) >= 3 /\ pcm.numChannels = 1
  /\ decoded = Thrown("RangeError")

(***************************************************************************)
(* The encoder's output: its size and its header                           *)
(***************************************************************************)
\* C15: the output of bufferToWave is exactly frameLimit * channelCount * 2
\* + 44 bytes long, for every buffer and frame limit.
C15_OutputLength ==
  Encoded => Len(wav) = frameLimit * buffer.numberOfChannels * 2 + 44

\* C15 witness: a stereo buffer encoded one frame short of its length.
C15_Witness ==
  /\ Encoded
  /\ buffer.numberOfChannels = 2 /\ buffer.length = 45 /\ frameLimit = 44
  /\ Len(wav) = 220

\* the unsigned little-endian values at byte offset at of the output
Uint16At(at) == wav[at + 1] + 256 * wav[at + 2]
Uint32At(at) == Uint16At(at) + 65536 * Uint16At(at + 2)

\* the four bytes at byte offset at
TagAt(at) == <<wav[at + 1], wav[at + 2], wav[at + 3], wav[at + 4]>>

\* the header cursor after the last header write of a call on the buffer
\* and frame limit of the state
HeaderCursor ==
  LET length == frameLimit * buffer.numberOfChannels * 2 + 44
  IN  WriteHeader(NewArrayBuffer(length), 0, WaveHeader(buffer, length), 1).pos

\* C16: the 44-byte header has every field at its fixed offset, little-
\* endian: 'RIFF' 0, totalLength-8 4, 'WAVE' 8, 'fmt ' 12, 16 at 16, 1 at
\* 20, channelCount 22, sampleRate 24, sampleRate*2*channelCount 28,
\* channelCount*2 32, 16 at 34, 'data' 36, totalLength-44 at 40; the header
\* cursor ends at 44.
C16_Header ==
  Encoded =>
    /\ TagAt(0) = <<82, 73, 70, 70>>
    /\ Uint32At(4) = Len(wav) - 8
    /\ TagAt(8) = <<87, 65, 86, 69>>
    /\ TagAt(12) = <<102, 109, 116, 32>>
    /\ Uint32At(16) = 16
    /\ Uint16At(20) = 1
    /\ Uint16At(22) = buffer.numberOfChannels
    /\ Uint32At(24) = buffer.sampleRate
    /\ Uint32At(28) = buffer.sampleRate * 2 * buffer.numberOfChannels
    /\ Uint16At(32) = buffer.numberOfChannels * 2
    /\ Uint16At(34) = 16
    /\ TagAt(36) = <<100, 97, 116, 97>>
    /\ Uint32At(40) = Len(wav) - 44
    /\ HeaderCursor = 44

\* C16 witness: the header of a stereo 24000 Hz buffer of 47 frames.
C16_Witness ==
  /\ Encoded
  /\ buffer.sampleRate = 24000 /\ buffer.numberOfChannels = 2 /\ frameLimit = 47
  /\ Uint32At(24) = 24000 /\ Uint32At(28) = 96000 /\ Uint32At(40) = 188

(***************************************************************************)
(* The words the frame loop writes: it starts at frame 44, the value the   *)
(* header writes left in pos, and writes from byte offset 44 on.           *)
(***************************************************************************)
\* the frames the loop reads that the buffer holds
FramesWritten ==
  {k \in 44..(frameLimit - 1) : k < buffer.length}

\* the byte offset at which the loop writes frame k, channel c
WrittenOffset(k, c) == 44 + 2 * ((k - 44) * buffer.numberOfChannels + c)

\* the word claimed for a sample: clamped to [-1, 1], then scaled by 32768
\* if negative and by 32767 otherwise, truncated toward zero
ClaimedWord(x) ==
  LET s == IF x > Scale THEN Scale ELSE IF x < -Scale THEN -Scale ELSE x
      q == IF s < 0 THEN s * 32768 ELSE s * 32767
  IN  IF q >= 0 THEN q \div Scale ELSE -((-q) \div Scale)

\* C17: every word written lies in -32768..32767, a sample >= 1 giving
\* 32767 and a sample <= -1 giving -32768; every negative sample is scaled
\* by 32768 and every positive sample by 32767, truncated toward zero.
C17_Quantization ==
  Encoded =>
    \A k \in FramesWritten : \A c \in Channels :
      LET w == Int16At(WrittenOffset(k, c))
          s == SampleAt(buffer, c, k)
      IN  /\ w \in -32768..32767
          /\ s >= Scale => w = 32767
          /\ s <= -Scale => w = -32768
          /\ w = ClaimedWord(s)

(***************************************************************************)
(* analyzeAudioQuality run step by step: the duration checks, then the     *)
(* window loop one iteration at a time, then the rest of the function.     *)
(* totalWindows is a JavaScript number: finite, Infinity or NaN.           *)
(***************************************************************************)
\* iterations of the window loop counted exactly; of the iterations beyond
\* them only the parity is kept
MaxLoopSteps == 64

\* Math.floor(data.length / windowSizeSamples)
totalWindowsNumber(abuffer) ==
  LET ws == windowSizeSamples(abuffer)
  IN  IF ws > 0 THEN [kind |-> "finite", n |-> abuffer.length \div ws]
      ELSE IF abuffer.length > 0 THEN [kind |-> "Infinity", n |-> 0]
      ELSE [kind |-> "NaN", n |-> 0]

\* i < totalWindows
LoopCondition(i, tw) ==
  CASE tw.kind = "finite"   -> i < tw.n
    [] tw.kind = "Infinity" -> TRUE
    [] tw.kind = "NaN"      -> FALSE

LoopRates == {10, 19, 20, 40}

\* frame counts around the 3 second limit, and the empty buffer
LoopLengths(sr) == {0, 3 * sr - 1, 3 * sr, 3 * sr + 1}

LoopBuffers ==
  {[sampleRate |-> sr, numberOfChannels |-> 1, length |-> n,
    lead |-> LoudBlock, leadN |-> k, motif |-> <<a, b>>] :
      sr \in LoopRates, n \in UNION {LoopLengths(r) : r \in LoopRates},
      k \in {0, 1}, a \in BlockTypes({0, 28}), b \in BlockTypes({96})}

InitLoop ==
  /\ buffer \in {b \in LoopBuffers : b.length \in LoopLengths(b.sampleRate)}
  /\ loop = NoLoop
  /\ called = "none"
  /\ result = NoResult
  /\ returnedAt = 0
  /\ locals = NoLocals
  /\ score = Unset
  /\ frameLimit = 0
  /\ RestIdle
  /\ wav = NoWav
  /\ previous = NoResult
  /\ pcm = NoPcm
  /\ decoded = NoBuffer
  /\ app = NoApp

\* analyzeAudioQuality(buffer) up to the window loop: the duration checks
EnterAnalysis ==
  /\ called = "none" /\ loop = NoLoop
  /\ IF DurationLess(buffer, 3) \/ DurationGreater(buffer, 300)
     THEN LET run == AnalysisRun(buffer)
          IN  /\ result' = run.result
              /\ returnedAt' = run.line
              /\ locals' = run.locals
              /\ score' = run.score
              /\ called' = "analyzeAudioQuality"
              /\ loop' = [pc |-> "returned"]
     ELSE /\ loop' = [pc |-> "loop", i |-> 0, beyond |-> 0,
                      totalWindows |-> totalWindowsNumber(buffer)]
          /\ UNCHANGED <<called, result, returnedAt, locals, score>>
  /\ UNCHANGED <<buffer, frameLimit, wav, previous, pcm, decoded, app, rest>>

\* one iteration of for (let i = 0; i < totalWindows; i++): a window is
\* sliced, its RMS and ZCR pushed
WindowStep ==
  /\ loop.pc = "loop"
  /\ LoopCondition(loop.i, loop.totalWindows)
  /\ loop' = IF loop.i < MaxLoopSteps
             THEN [loop EXCEPT !.i = @ + 1]
             ELSE [loop EXCEPT !.beyond = 1 - @]
  /\ UNCHANGED <<buffer, called, result, returnedAt, locals, score, frameLimit,
                 wav, previous, pcm, decoded, app, rest>>

\* the loop condition fails: the rest of the function runs and returns
LeaveLoop ==
  /\ loop.pc = "loop"
  /\ ~LoopCondition(loop.i, loop.totalWindows)
  /\ LET run == AnalysisRun(buffer)
     IN  /\ result' = run.result
         /\ returnedAt' = run.line
         /\ locals' = run.locals
         /\ score' = run.score
  /\ called' = "analyzeAudioQuality"
  /\ loop' = [pc |-> "returned"]
  /\ UNCHANGED <<buffer, frameLimit, wav, previous, pcm, decoded, app, rest>>

NextLoop == EnterAnalysis \/ WindowStep \/ LeaveLoop

\* LeaveLoop can be taken
LeaveEnabled ==
  /\ loop.pc = "loop"
  /\ ~LoopCondition(loop.i, loop.totalWindows)

\* the function runs to completion on the thread that called it: whichever
\* step it is at is eventually taken (weak fairness of each step, that of
\* LeaveLoop written out with its enabling condition)
SpecLoop ==
  /\ InitLoop /\ [][NextLoop]_vars
  /\ WF_vars(EnterAnalysis) /\ WF_vars(WindowStep)
  /\ ([]<>(~LeaveEnabled) \/ []<><<LeaveLoop>>_vars)

\* C18: analyzeAudioQuality terminates and returns a result for every
\* buffer with a positive integer sample rate and any frame count,
\* including sample rates for which floor(sampleRate * 0.05) is 0 (a
\* buffer without a full window being rejected by the duration check).
C18_Terminates == <>(loop.pc = "returned")

(***************************************************************************)
(* Calls in succession on one buffer: analyzeAudioQuality up to twice and  *)
(* bufferToWave once, in any order (the application analyses a clip at     *)
(* selection, again at preview and at generation, and encodes buffers for  *)
(* download).  previous keeps the result of the call before the last.      *)
(***************************************************************************)
\* 192 is outside [-1, 1]: the encoder clamps it in its output
CallAmps == {0, 28, 192}

CallRates == {20, 21}

CallLengths(sr) == {3 * sr - 1, 3 * sr, 3 * sr + 1}

CallBuffers ==
  {[sampleRate |-> sr, numberOfChannels |-> ch, length |-> n,
    lead |-> LoudBlock, leadN |-> k, motif |-> <<a, b>>] :
      sr \in CallRates, ch \in {1, 2},
      n \in UNION {CallLengths(r) : r \in CallRates},
      k \in {0, 1}, a \in BlockTypes(CallAmps), b \in BlockTypes({96})}

InitCalls ==
  /\ buffer \in {b \in CallBuffers : b.length \in CallLengths(b.sampleRate)}
  /\ called = "none"
  /\ result = NoResult
  /\ returnedAt = 0
  /\ locals = NoLocals
  /\ score = Unset
  /\ frameLimit = 0
  /\ wav = NoWav
  /\ OthersIdle

\* the frame limits passed to bufferToWave here: the first frames of the
\* clip, a few past the 44th
CallFrameLimits == {45, 48}

\* analyzeAudioQuality(buffer), a first or a second time: data is a view of
\* channel 0 that is only read (slice copies each window), everything else
\* the function touches is local to the call
AnalyzeCall ==
  /\ previous = NoResult
  /\ previous' = result
  /\ LET run == AnalysisRun(buffer)
     IN  /\ result' = run.result
         /\ returnedAt' = run.line
         /\ locals' = run.locals
         /\ score' = run.score
  /\ called' = "analyzeAudioQuality"
  /\ buffer' = buffer
  /\ UNCHANGED <<frameLimit, wav, pcm, decoded, loop, app, rest>>

\* the block type as in-place clamping to [-1, 1] would leave it
ClampedBlock(t) == [t EXCEPT !.amp = Clamp(@)]

\* mutant of EncodeCall: the clamped sample stored back into the channel
EncodeCall_ClampsInPlace ==
  /\ wav = NoWav
  /\ \E len \in CallFrameLimits :
       /\ frameLimit' = len
       /\ wav' = bufferToWave(buffer, len)
  /\ called' = "bufferToWave"
  /\ buffer' = [buffer EXCEPT !.lead = ClampedBlock(@),
                              !.motif = [b \in DOMAIN @ |-> ClampedBlock(@[b])]]
  /\ UNCHANGED <<result, returnedAt, locals, score, others>>

\* bufferToWave(buffer, len): the channel views are only read, the writes
\* go to the DataView over the new ArrayBuffer
EncodeCall ==
  /\ wav = NoWav
  /\ \E len \in CallFrameLimits :
       /\ frameLimit' = len
       /\ wav' = bufferToWave(buffer, len)
  /\ called' = "bufferToWave"
  /\ buffer' = buffer
  /\ UNCHANGED <<result, returnedAt, locals, score, others>>

NextCalls == AnalyzeCall \/ EncodeCall

SpecCalls == InitCalls /\ [][NextCalls]_vars

\* analyzeAudioQuality has been called twice
CalledTwice == previous # NoResult

\* the buffer with channel 0 alone
Channel0Only(abuffer) == [abuffer EXCEPT !.numberOfChannels = 1]

FeatureRates == {40, 60}

\* 3 seconds exactly, and with a trailing partial window of 1 frame or of
\* one frame less than a window
FeatureLengths(sr) == {3 * sr, 3 * sr + 1, 3 * sr + (sr * 5) \div 100 - 1}

\* the blocks of a clip of W full windows: first, then a and b in turn, last,
\* and the block the trailing partial window is cut from
FeatureMotif(W, first, a, b, last, tail) ==
  Filled([i \in 1..(W + 1) |->
     IF i = 1 THEN first
     ELSE IF i = W THEN last
     ELSE IF i = W + 1 THEN tail
     ELSE IF i % 2 = 0 THEN a ELSE b])

Steady(amps) == [amp : amps, alt : {FALSE}]

FeatureBuffers ==
  {[sampleRate |-> sr, numberOfChannels |-> 1, length |-> n,
    lead |-> LoudBlock, leadN |-> 0,
    motif |-> FeatureMotif(n \div ((sr * 5) \div 100), first, a, b, last, tail)] :
      sr \in FeatureRates, n \in UNION {FeatureLengths(r) : r \in FeatureRates},
      first \in Steady({0, 96}), a \in BlockTypes({0, 28, 96}),
      b \in BlockTypes({96}), last \in Steady({0, 96}), tail \in Steady({0, 128})}

InitFeatures ==
  /\ buffer \in {b \in FeatureBuffers : b.length \in FeatureLengths(b.sampleRate)}
  /\ called = "none"
  /\ result = NoResult
  /\ returnedAt = 0
  /\ locals = NoLocals
  /\ score = Unset
  /\ frameLimit = 0
  /\ wav = NoWav
  /\ OthersIdle

SpecFeatures == InitFeatures /\ [][Next]_vars

\* the call went through the dynamics analysis (it returned after line 255)
ReachedDynamics == "quietRatio" \in DOMAIN locals

\* the windows of series e whose RMS is below, or above, its dynamicThreshold
QuietAmongAll(e) ==
  {i \in 1..e.totalWindows : RatLess(curr(e, i), dynamicThreshold(e))}
ActiveAmongAll(e) ==
  {i \in 1..e.totalWindows : RatLess(dynamicThreshold(e), curr(e, i))}

\* C21: quietRatio is the number of windows, from the first to the last,
\* whose RMS is below dynamicThreshold = max(avgRMS * 0.4, 0.02), over the
\* total number of windows.
C21_QuietRatio ==
  ReachedDynamics =>
    LET e == ExtractWindows(buffer)
    IN  locals.quietRatio = Rat(Cardinality(QuietAmongAll(e)), e.totalWindows)

\* two exact rationals of positive denominator are the same number
RatSame(a, b) == ~RatLess(a, b) /\ ~RatLess(b, a)

\* the windows of series e that are strict local RMS maxima, above its
\* dynamicThreshold and above avgRMS * 0.8
PeaksAmongAll(e) ==
  {i \in ActiveAmongAll(e) \ {1, e.totalWindows} :
     /\ e.windowRMSs[i] > e.windowRMSs[i - 1]
     /\ e.windowRMSs[i] > e.windowRMSs[i + 1]
     /\ RatLess(RatScale(e.avgRMS, 8, 10), curr(e, i))}

\* the square of the standard deviation of the ZCR of the windows act of
\* series e, the windows being of ws frames (0 for no window)
ZcrVarianceOver(e, ws, act) ==
  LET A   == Cardinality(act)
      W   == e.totalWindows
      C   == SumTo([i \in 1..W |-> IF i \in act THEN e.windowZCRs[i].n ELSE 0], W)
      dev == [i \in 1..W |->
                IF i \in act
                THEN (A * e.windowZCRs[i].n - C) * (A * e.windowZCRs[i].n - C)
                ELSE 0]
  IN  IF A > 0 THEN Rat(SumTo(dev, W), A * A * A * ws * ws) ELSE Rat(0, 1)

\* C22: peaksPerSecond is the number of windows that are strict local RMS
\* maxima above dynamicThreshold and above avgRMS * 0.8, divided by 0.05 s
\* times the number of all the windows whose RMS exceeds dynamicThreshold
\* (0 when there is none), and zcrStdDev is the standard deviation of the
\* ZCR over exactly those windows.
C22_PeaksPerSecond ==
  ReachedDynamics =>
    LET e   == ExtractWindows(buffer)
        act == ActiveAmongAll(e)
        A   == Cardinality(act)
    IN  /\ locals.activeWindowsCount = A
        /\ RatSame(locals.peaksPerSecond,
                   IF A > 0 THEN Rat(Cardinality(PeaksAmongAll(e)) * 100, A * 5)
                   ELSE Rat(0, 1))
        /\ RatSame(locals.zcrStdDevSq,
                   ZcrVarianceOver(e, windowSizeSamples(buffer), act))

\* the call went through the window loop (it returned after line 183)
ReachedVolumeCheck == "globalPeak" \in DOMAIN locals

\* the largest |sample| of channel 0 of the buffer, in units of 1 / Scale
PeakOfSignal(abuffer) ==
  LET mags == {Abs(SampleAt(abuffer, 0, k)) : k \in 0..(abuffer.length - 1)}
  IN  CHOOSE p \in mags : \A q \in mags : q <= p

\* C23: the globalPeak read by the clipping gate and the clipping deduction
\* is the largest absolute sample of the whole channel 0 signal, the samples
\* of a trailing partial window included.
C23_GlobalPeak ==
  ReachedVolumeCheck => locals.globalPeak = Rat(PeakOfSignal(buffer), Scale)

\* the sum of the squares of frames lo..hi of channel 0, in units of 1 / Scale^2
SquaresOfFrames(abuffer, lo, hi) ==
  SumTo([j \in 1..(hi - lo + 1) |->
           SampleAt(abuffer, 0, lo + j - 1) * SampleAt(abuffer, 0, lo + j - 1)],
        hi - lo + 1)

\* the buffer without the frames of its trailing partial window
WholeWindowsOnly(abuffer) ==
  LET ws == (abuffer.sampleRate * 5) \div 100
  IN  [abuffer EXCEPT !.length = (abuffer.length \div ws) * ws]

\* C24: the RMS and ZCR series have floor(length / windowSize) entries with
\* windowSize = floor(sampleRate * 0.05); the RMS of window i is the square
\* root of the mean square of frames i * windowSize to (i + 1) * windowSize
\* - 1, and the frames of a trailing partial window enter no RMS or ZCR.
C24_Windows ==
  ReachedVolumeCheck =>
    LET ws == (buffer.sampleRate * 5) \div 100
        W  == buffer.length \div ws
        e  == ExtractWindows(buffer)
        w  == ExtractWindows(WholeWindowsOnly(buffer))
    IN  /\ locals.totalWindows = W
        /\ Len(e.windowRMSs) = W /\ Len(e.windowZCRs) = W
        /\ locals.avgRMS = Rat(SumTo(e.windowRMSs, W), Scale * W)
        /\ \A i \in 0..(W - 1) :
             e.windowRMSs[i + 1] * e.windowRMSs[i + 1] * ws
               = SquaresOfFrames(buffer, i * ws, (i + 1) * ws - 1)
        /\ e.windowRMSs = w.windowRMSs /\ e.windowZCRs = w.windowZCRs

\* an analysed clip ending in a partial window of full-scale samples, with
\* silent and loud windows before it
C24_Witness ==
  /\ ReachedDynamics
  /\ buffer.length % windowSizeSamples(buffer) # 0
  /\ SampleAt(buffer, 0, buffer.length - 1) = 128
  /\ SampleAt(buffer, 0, 0) = 0
  /\ SampleAt(buffer, 0, buffer.length - 2) = 96

(***************************************************************************)
(* calculateZCR on the windows of short signals of negative, zero and      *)
(* positive samples: the slicing and the ZCR part of the window loop of    *)
(* analyzeAudioQuality, one iteration at a time.                           *)
(***************************************************************************)
\* frames of the longest signal
MaxSegment == 6

SegmentSamples == {-64, 0, 64}

Signals == UNION {[1..n -> SegmentSamples] : n \in 1..MaxSegment}

WindowSizes == {1, 2, 3}

\* data.slice(lo, hi) for 0 <= lo <= hi <= data.length, indexed from 0
Slice(data, lo, hi) == [j \in 0..(hi - lo - 1) |-> data[lo + j + 1]]

InitZCR ==
  /\ segment \in {[pc |-> "loop", data |-> d, windowSizeSamples |-> ws,
                    i |-> 0, windowZCRs |-> <<>>] :
                     d \in Signals, ws \in WindowSizes}
  /\ player = NoPlayer
  /\ library = NoLibrary
  /\ buffer = FileBuffer("good")
  /\ called = "none"
  /\ result = NoResult
  /\ returnedAt = 0
  /\ locals = NoLocals
  /\ score = Unset
  /\ frameLimit = 0
  /\ wav = NoWav
  /\ previous = NoResult
  /\ pcm = NoPcm
  /\ decoded = NoBuffer
  /\ loop = NoLoop
  /\ app = NoApp

\* one iteration of the window loop: windowZCRs.push(calculateZCR(windowData))
PushZCR ==
  /\ segment.pc = "loop"
  /\ segment.i < Len(segment.data) \div segment.windowSizeSamples
  /\ LET ws == segment.windowSizeSamples
         windowDataI == Slice(segment.data, segment.i * ws, (segment.i + 1) * ws)
     IN  segment' = [segment EXCEPT
           !.windowZCRs = Append(@, calculateZCR(windowDataI)),
           !.i = @ + 1]
  /\ UNCHANGED <<buffer, called, result, returnedAt, locals, score, frameLimit,
                 wav, previous, pcm, decoded, loop, app, player, library>>

NextZCR == PushZCR

SpecZCR == InitZCR /\ [][NextZCR]_vars

\* the sign class of a sample: 0 counts as non-negative
NonNegative(x) == x >= 0

\* the pairs of adjacent frames (k - 1, k) of sign classes that differ, both
\* frames within frames lo..hi of the signal (frames counted from 0)
CrossingsWithin(data, lo, hi) ==
  {k \in (lo + 1)..hi : NonNegative(data[k + 1]) # NonNegative(data[k])}

\* C25: the ZCR of every window is the number of adjacent pairs of samples
\* of the window whose sign classes differ (0 counting as non-negative) over
\* the window length; it lies in [0, 1], and a pair that spans two windows
\* is counted in neither.
C25_ZCR ==
  segment.pc = "loop" =>
    \A i \in 1..Len(segment.windowZCRs) :
      LET ws == segment.windowSizeSamples
          z  == segment.windowZCRs[i]
      IN  /\ z = Rat(Cardinality(CrossingsWithin(segment.data,
                                                 (i - 1) * ws, i * ws - 1)), ws)
          /\ 0 <= z.n /\ z.n <= z.d

\* two windows of two frames: a zero before a negative sample in the first,
\* a change of sign between the two windows
C25_Witness ==
  /\ segment.pc = "loop"
  /\ segment.data = <<0, -64, 64, 64>> /\ segment.windowSizeSamples = 2
  /\ segment.windowZCRs = <<Rat(1, 2), Rat(0, 2)>>

\* the call went through the scoring logic (it returned after line 291)
Scored == Analysed /\ score # Unset

\* C26: whenever the scoring logic is reached, the score before the clamp
\* is a multiple of 5 from 20 to 100, so that the clamp to [0, 100] leaves
\* it as it is; every valid result has a score of at least 20.
C26_ScoreRange ==
  /\ Scored =>
       LET raw == 100 - Deductions
       IN  /\ raw % 5 = 0 /\ 20 <= raw /\ raw <= 100
           /\ score = raw
  /\ (Analysed /\ result.valid) => (Scored /\ result.score >= 20)

\* a clip accepted with 45 points deducted
C26_Witness ==
  Scored /\ result.valid /\ Deductions = 45 /\ result.score = 55

(***************************************************************************)
(* App: playback and generation.  player holds the React state status and  *)
(* currentlyPlayingId, the number of items of history (item k is the k-th  *)
(* generated), sourceNodeRef (0 for null), the AudioBufferSourceNodes      *)
(* created so far (sources[s] is the item whose onended closure source s   *)
(* carries), those playing, those whose ended event is queued, and the     *)
(* generateSpeech requests in flight.  replacing records the sources that  *)
(* playAudio started while another source was playing.  An action is one   *)
(* event handler or callback run to its end or to its next await, with the *)
(* state updates it batches.  The preview item is left out.                *)
(***************************************************************************)
\* AudioBufferSourceNodes created in a run
MaxSources == 4

\* generateSpeech requests made in a run
MaxItems == 2

\* sourceNodeRef.current.stop() when the ref is set: the source stops and
\* its ended event is queued
stopSource(p) ==
  IF p.sourceNodeRef \in p.playing
  THEN [p EXCEPT !.playing = @ \ {p.sourceNodeRef},
                 !.pending = @ \cup {p.sourceNodeRef}]
  ELSE p

\* stopAudio()
stopAudio(p) ==
  [stopSource(p) EXCEPT !.sourceNodeRef = 0,
                        !.currentlyPlayingId = 0,
                        !.status = "IDLE"]

\* playAudio(item) for an item of history
playAudio(p, item) ==
  LET s == Len(p.sources) + 1
  IN  [stopSource(p) EXCEPT
         !.sources = Append(@, item),
         !.playing = @ \cup {s},
         !.sourceNodeRef = s,
         !.replacing = IF p.sourceNodeRef \in p.playing THEN @ \cup {s} ELSE @,
         !.currentlyPlayingId = item,
         !.status = "PLAYING"]

\* source.onended of a source created for item (not the preview item)
onended(p, item) == [p EXCEPT !.currentlyPlayingId = 0, !.status = "IDLE"]

InitPlayer ==
  /\ player = [status |-> "IDLE", currentlyPlayingId |-> 0, history |-> 0,
               sourceNodeRef |-> 0, sources |-> <<>>, playing |-> {},
               pending |-> {}, generating |-> 0, replacing |-> {}]
  /\ segment = NoSegment
  /\ library = NoLibrary
  /\ buffer = FileBuffer("good")
  /\ called = "none"
  /\ result = NoResult
  /\ returnedAt = 0
  /\ locals = NoLocals
  /\ score = Unset
  /\ frameLimit = 0
  /\ wav = NoWav
  /\ previous = NoResult
  /\ pcm = NoPcm
  /\ decoded = NoBuffer
  /\ loop = NoLoop
  /\ app = NoApp

PlayerUnchanged ==
  UNCHANGED <<buffer, called, result, returnedAt, locals, score, frameLimit,
              wav, previous, pcm, decoded, loop, app, segment, library>>

\* the play button of a history item that is not shown as playing
PlayAudio ==
  /\ Len(player.sources) < MaxSources
  /\ \E item \in 1..player.history :
       /\ item # player.currentlyPlayingId
       /\ player' = playAudio(player, item)
  /\ PlayerUnchanged

\* the pause button of the item shown as playing, or a mode button
StopAudio ==
  /\ player' = stopAudio(player)
  /\ player' # player
  /\ PlayerUnchanged

\* a playing source reaches the end of its buffer: its ended event is queued
SourceEnds ==
  /\ \E s \in player.playing :
       player' = [player EXCEPT !.playing = @ \ {s}, !.pending = @ \cup {s}]
  /\ PlayerUnchanged

\* the ended event of a source is dispatched: its onended callback runs
OnEnded ==
  /\ \E s \in player.pending :
       player' = [onended(player, player.sources[s]) EXCEPT !.pending = @ \ {s}]
  /\ PlayerUnchanged

\* handleGenerate up to its first await (text and API key present, the
\* button enabled): setStatus(GENERATING), then stopAudio()
HandleGenerate ==
  /\ player.status # "GENERATING"
  /\ player.history + player.generating < MaxItems
  /\ player' = [stopAudio([player EXCEPT !.status = "GENERATING"])
                  EXCEPT !.generating = @ + 1]
  /\ PlayerUnchanged

\* generateSpeech and decodeAudioData resolve: the item is added to history,
\* setStatus(IDLE), playAudio(newItem)
GenerateResolve ==
  /\ player.generating > 0
  /\ Len(player.sources) < MaxSources
  /\ player' = playAudio([player EXCEPT !.generating = @ - 1,
                                        !.history = @ + 1,
                                        !.status = "IDLE"],
                         player.history + 1)
  /\ PlayerUnchanged

\* generateSpeech or decodeAudioData rejects: setStatus(ERROR)
GenerateReject ==
  /\ player.generating > 0
  /\ player' = [player EXCEPT !.generating = @ - 1, !.status = "ERROR"]
  /\ PlayerUnchanged

NextPlayer ==
  \/ PlayAudio \/ StopAudio \/ SourceEnds \/ OnEnded
  \/ HandleGenerate \/ GenerateResolve \/ GenerateReject

SpecPlayer == InitPlayer /\ [][NextPlayer]_vars

\* C27: from the moment handleGenerate has passed its guards until its
\* generateSpeech request resolves or rejects, status is GENERATING: neither
\* the stopAudio call of handleGenerate nor an onended callback sets it
\* back to IDLE meanwhile.
C27_GeneratingStatus ==
  player.generating > 0 => player.status = "GENERATING"

\* C28: once playAudio has started the source of item B while another
\* source was playing, and every queued ended event has been dispatched,
\* then for as long as B's source plays currentlyPlayingId is B and status
\* is PLAYING.
C28_ReplacedSource ==
  \A s \in player.replacing :
    (s \in player.playing /\ player.pending = {}) =>
       /\ player.currentlyPlayingId = player.sources[s]
       /\ player.status = "PLAYING"

(***************************************************************************)
(* The reference voice and the saved voices (App.tsx, VoiceClonePanel.tsx):*)
(* the state the panel renders, and the handler invocations waiting on an  *)
(* await, each with the constants of the render it was created in.  The    *)
(* user acts through the controls the panel shows: the upload area and the *)
(* saved voice list while no file is selected, the file card otherwise.    *)
(***************************************************************************)
\* saved voices, the one found in the database included
MaxVoices == 2

\* database requests (saveVoiceToDB, deleteSavedVoiceFromDB) awaited at once
MaxPending == 1

\* the voice the database holds when the application starts, if any
StoredVoice == [id |-> 1, file |-> "good"]

\* the message of the error validateAndAnalyzeAudio throws for the file
RejectionReason(file) ==
  IF ~Decodes(file) THEN "Unable to decode audio data"
  ELSE analyzeAudioQuality(FileBuffer(file)).reason

IsSaved(l, id) == \E k \in 1..Len(l.savedVoices) : l.savedVoices[k].id = id

SavedFile(l, id) ==
  LET k == CHOOSE k \in 1..Len(l.savedVoices) : l.savedVoices[k].id = id
  IN  l.savedVoices[k].file

\* processFile(file) up to its first await
processFile(l, file) ==
  [l EXCEPT !.clonedFile = file, !.isAnalyzing = TRUE, !.error = "null",
            !.hasPreviewed = FALSE, !.analysisScore = Unset,
            !.processing = file]

\* mutant of processFileSettled: the catch block leaves the file selected
processFileSettled_KeepsFile(l) ==
  LET v == validateAndAnalyzeAudio(l.processing, TRUE)
  IN  IF v.threw
      THEN [l EXCEPT !.error = RejectionReason(l.processing),
                     !.isAnalyzing = FALSE, !.processing = "null"]
      ELSE [l EXCEPT !.analysisScore = v.score,
                     !.isAnalyzing = FALSE, !.processing = "null"]

\* processFile after its awaits: try, catch and finally
processFileSettled(l) ==
  LET v == validateAndAnalyzeAudio(l.processing, TRUE)
  IN  IF v.threw
      THEN [l EXCEPT !.error = RejectionReason(l.processing),
                     !.clonedFile = "null",
                     !.isAnalyzing = FALSE, !.processing = "null"]
      ELSE [l EXCEPT !.analysisScore = v.score,
                     !.isAnalyzing = FALSE, !.processing = "null"]

\* handleFileSelect(file)
handleFileSelect(l, file) ==
  IF file = "null"
  THEN [l EXCEPT !.clonedFile = "null", !.error = "null",
                 !.hasPreviewed = FALSE, !.activeVoiceId = 0,
                 !.analysisScore = Unset]
  ELSE processFile([l EXCEPT !.activeVoiceId = 0], file)

\* handleSelectSavedVoice(voice)
handleSelectSavedVoice(l, voice) ==
  processFile([l EXCEPT !.activeVoiceId = voice.id], voice.file)

InitLibrary ==
  /\ \E stored \in {<<>>, <<StoredVoice>>} :
       library = [clonedFile |-> "null", isAnalyzing |-> FALSE,
                  analysisScore |-> Unset, error |-> "null",
                  hasPreviewed |-> FALSE, activeVoiceId |-> 0,
                  savedVoices |-> stored, processing |-> "null",
                  previewing |-> "null", saving |-> {}, deleting |-> {},
                  nextId |-> 2]
  /\ buffer = FileBuffer("good")
  /\ called = "none"
  /\ result = NoResult
  /\ returnedAt = 0
  /\ locals = NoLocals
  /\ score = Unset
  /\ frameLimit = 0
  /\ wav = NoWav
  /\ previous = NoResult
  /\ pcm = NoPcm
  /\ decoded = NoBuffer
  /\ loop = NoLoop
  /\ app = NoApp
  /\ segment = NoSegment
  /\ player = NoPlayer

\* one more database request may be sent
MayRequest(l) == Cardinality(l.saving) + Cardinality(l.deleting) < MaxPending

LibraryUnchanged ==
  UNCHANGED <<buffer, called, result, returnedAt, locals, score, frameLimit,
              wav, previous, pcm, decoded, loop, app, segment, player>>

\* a file dropped on the upload area or picked in its input
UploadFile ==
  /\ library.clonedFile = "null"
  /\ \E f \in Files : library' = handleFileSelect(library, f)
  /\ LibraryUnchanged

\* a click on a voice of the saved voice list
SelectSavedVoice ==
  /\ library.clonedFile = "null"
  /\ \E k \in 1..Len(library.savedVoices) :
       library' = handleSelectSavedVoice(library, library.savedVoices[k])
  /\ LibraryUnchanged

\* the remove button of the file card, confirmed: handleFileSelect(null)
RemoveFile ==
  /\ library.clonedFile # "null"
  /\ ~library.isAnalyzing
  /\ library' = handleFileSelect(library, "null")
  /\ LibraryUnchanged

\* the delay and validateAndAnalyzeAudio of processFile settle
ProcessFileSettles ==
  /\ library.processing # "null"
  /\ library' = processFileSettled(library)
  /\ LibraryUnchanged

\* handlePreview up to its first await
PreviewVoice ==
  /\ library.clonedFile # "null"
  /\ ~library.isAnalyzing
  /\ library.previewing = "null"
  /\ library' = [library EXCEPT !.previewing = library.clonedFile,
                                !.error = "null"]
  /\ LibraryUnchanged

\* handlePreview after its awaits: the validation of its file, then the
\* remote synthesis, which resolves or rejects
PreviewSettles ==
  /\ library.previewing # "null"
  /\ IF validateAndAnalyzeAudio(library.previewing, TRUE).threw
     THEN library' = [library EXCEPT
            !.error = RejectionReason(library.previewing),
            !.previewing = "null"]
     ELSE \E ok \in BOOLEAN :
            library' =
              IF ok
              THEN [library EXCEPT !.hasPreviewed = TRUE, !.previewing = "null"]
              ELSE [library EXCEPT !.error = "Preview failed",
                                   !.previewing = "null"]
  /\ LibraryUnchanged

\* the save button and its dialog: handleSaveVoice(name) up to its await
SaveVoice ==
  /\ library.clonedFile # "null"
  /\ ~library.isAnalyzing
  /\ library.error = "null"
  /\ library.activeVoiceId = 0
  /\ library.hasPreviewed
  /\ library.nextId <= MaxVoices
  /\ MayRequest(library)
  /\ library' = [library EXCEPT
       !.saving = @ \cup {[id |-> library.nextId, file |-> library.clonedFile]},
       !.nextId = @ + 1]
  /\ LibraryUnchanged

\* saveVoiceToDB resolves or rejects
SaveSettles ==
  /\ \E s \in library.saving : \E ok \in BOOLEAN :
       library' =
         IF ok
         THEN [library EXCEPT !.savedVoices = <<s>> \o @,
                              !.activeVoiceId = s.id,
                              !.saving = @ \ {s}]
         ELSE [library EXCEPT !.error = "Failed to save voice to local storage.",
                              !.saving = @ \ {s}]
  /\ LibraryUnchanged

\* the delete button of a voice of the list: handleDeleteSavedVoice(id) up to
\* its await; the invocation keeps the activeVoiceId of its render
DeleteVoice ==
  /\ library.clonedFile = "null"
  /\ MayRequest(library)
  /\ \E k \in 1..Len(library.savedVoices) :
       LET d == [id |-> library.savedVoices[k].id,
                 activeVoiceId |-> library.activeVoiceId]
       IN  /\ d \notin library.deleting
           /\ library' = [library EXCEPT !.deleting = @ \cup {d}]
  /\ LibraryUnchanged

\* deleteSavedVoiceFromDB resolves or rejects
DeleteSettles ==
  /\ \E d \in library.deleting : \E ok \in BOOLEAN :
       library' =
         IF ok
         THEN [library EXCEPT
                 !.savedVoices = SelectSeq(@, LAMBDA v : v.id # d.id),
                 !.activeVoiceId = IF d.activeVoiceId = d.id THEN 0 ELSE @,
                 !.deleting = @ \ {d}]
         ELSE [library EXCEPT !.error = "Failed to delete saved voice.",
                              !.deleting = @ \ {d}]
  /\ LibraryUnchanged

NextLibrary ==
  \/ UploadFile \/ SelectSavedVoice \/ RemoveFile \/ ProcessFileSettles
  \/ PreviewVoice \/ PreviewSettles
  \/ SaveVoice \/ SaveSettles \/ DeleteVoice \/ DeleteSettles

SpecLibrary == InitLibrary /\ [][NextLibrary]_vars

\* no processFile invocation is waiting
ProcessFileIdle == library.processing = "null"

\* C29: once processFile has settled isAnalyzing is false, and analysisScore
\* is non-null only if clonedFile is non-null and the analysis of that file
\* returned valid, with that score; a processFile whose analysis fails
\* settles with clonedFile null, analysisScore null and error set to the
\* rejection reason.
C29_AnalysisState ==
  /\ [](ProcessFileIdle =>
          /\ ~library.isAnalyzing
          /\ library.analysisScore # Unset =>
               /\ library.clonedFile # "null"
               /\ Decodes(library.clonedFile)
               /\ LET analysis ==
                        analyzeAudioQuality(FileBuffer(library.clonedFile))
                  IN  /\ analysis.valid
                      /\ library.analysisScore = analysis.score)
  /\ [][(/\ ~ProcessFileIdle
         /\ ProcessFileIdle'
         /\ ~FileIsValid(library.processing)) =>
           /\ library'.clonedFile = "null"
           /\ library'.analysisScore = Unset
           /\ library'.error = RejectionReason(library.processing)]_vars

\* a rejected file has settled, after an accepted one that was saved
C29_Witness ==
  /\ ProcessFileIdle
  /\ ~library.isAnalyzing
  /\ library.clonedFile = "null"
  /\ library.analysisScore = Unset
  /\ library.error = ReasonTooShort
  /\ library.nextId > 2

\* C30: in every state where no analysis is in progress, a non-null
\* activeVoiceId is that of a voice of savedVoices, and clonedFile is that
\* voice's file.
C30_ActiveVoice ==
  (~library.isAnalyzing /\ library.activeVoiceId # 0) =>
     /\ IsSaved(library, library.activeVoiceId)
     /\ library.clonedFile = SavedFile(library, library.activeVoiceId)

====
